---------------------------- MODULE Spec2Model ----------------------------
(***************************************************************************)
(* A model of the go-suretax client (src/client.go): the lazily created,   *)
(* mutex-guarded HTTP transport (getClient), the process-wide override     *)
(* (SetHttpClient), the Send and Cancel calls, and the double JSON         *)
(* encoding of the request and response envelopes.                         *)
(*                                                                         *)
(* Text is a sequence of symbols.  A symbol is one character, or a "word": *)
(* a run of characters none of which is special to JSON (a field name, a   *)
(* literal such as 000000001).  encoding/json is modelled by what it does  *)
(* to such text: Marshal writes it, Unmarshal scans and decodes it.        *)
(***************************************************************************)
EXTENDS Integers, Sequences, FiniteSets, TLC

(***************************************************************************)
(* Characters.                                                             *)
(***************************************************************************)
\* the double quote
Q == "\""

\* the backslash
B == "\\"

\* a line feed (a control character)
NL == "<LF>"

\* a byte that is not valid UTF-8 (0xff)
X == "<FF>"

\* U+FFFD, the Unicode replacement rune
R == "<U+FFFD>"

\* the character <, which Marshal writes as the escape u003c
LT == "<"

WS == {" "}

Digits == {"0", "1", "2", "3", "4", "5", "6", "7", "8", "9"}

DigitSeq == <<"0", "1", "2", "3", "4", "5", "6", "7", "8", "9">>

DigitVal(d) == (CHOOSE i \in 1..10 : DigitSeq[i] = d) - 1

(***************************************************************************)
(* Go types, as encoding/json sees them through reflection.                *)
(***************************************************************************)
TString == [t |-> "string", fields |-> <<>>, elem |-> <<>>]

TInt == [t |-> "int", fields |-> <<>>, elem |-> <<>>]

TFloat == [t |-> "float64", fields |-> <<>>, elem |-> <<>>]

TSlice(e) == [t |-> "slice", fields |-> <<>>, elem |-> <<e>>]

TStruct(fs) == [t |-> "struct", fields |-> fs, elem |-> <<>>]

\* a struct field: its Go name, its JSON key, its type
Field(name, key, type) == [name |-> name, key |-> key, type |-> type]

\* a field without a tag: the key is the name
F(name) == Field(name, name, TString)

FieldNames(T) == {T.fields[i].name : i \in DOMAIN T.fields}

FieldType(T, n) == T.fields[CHOOSE i \in DOMAIN T.fields : T.fields[i].name = n].type

\* a slice value: nil, or its elements
NilSlice == [isNil |-> TRUE, elems |-> <<>>]

Slice(es) == [isNil |-> FALSE, elems |-> es]

\* a float64: m * 10^(-e) in lowest terms (its shortest decimal), or NaN
Float(m, e) == [m |-> m, e |-> e, nan |-> FALSE]

NaN == [m |-> 0, e |-> 0, nan |-> TRUE]

RECURSIVE Zero(_)
Zero(T) ==
    CASE T.t = "string" -> <<>>
      [] T.t = "int" -> 0
      [] T.t = "float64" -> Float(0, 0)
      [] T.t = "slice" -> NilSlice
      [] T.t = "struct" -> [n \in FieldNames(T) |-> Zero(FieldType(T, n))]

(***************************************************************************)
(* The schema.                                                             *)
(***************************************************************************)
requestWrapper == TStruct(<<Field("Request", "request", TString)>>)

cancelRequestWrapper == TStruct(<<Field("Request", "requestCancel", TString)>>)

ResponseWrapper == TStruct(<<Field("D", "d", TString)>>)

Address ==
    TStruct(<<F("PrimaryAddressLine"), F("SecondaryAddressLine"), F("County"),
              F("City"), F("State"), F("PostalCode"), F("Plus4"), F("Country"),
              F("Geocode"), F("VerifyAddress")>>)

P2PAddress ==
    TStruct(<<F("PrimaryAddressLine"), F("SecondaryAddressLine"), F("County"),
              F("City"), F("State"), F("PostalCode"), F("Plus4"), F("Country"),
              F("Geocode"), F("VerifyAddress")>>)

RequestItem ==
    TStruct(<<F("LineNumber"), F("InvoiceNumber"), F("CustomerNumber"),
              F("OrigNumber"), F("TermNumber"), F("BillToNumber"),
              F("TransDate"), F("BillingPeriodStartDate"),
              F("BillingPeriodEndDate"), F("Revenue"), F("TaxIncludedCode"),
              F("Units"), F("UnitType"), F("TaxSitusRule"), F("TransTypeCode"),
              F("SalesTypeCode"), F("RegulatoryCode"),
              Field("TaxExemptionCodeList", "TaxExemptionCodeList", TSlice(TString)),
              F("ExemptReasonCode"), F("UDF"), F("UDF2"), F("CostCenter"),
              F("GLAccount"), F("MaterialGroup"), F("BillingDaysInPeriod"),
              F("OriginCountryCode"), F("DestCountryCode"), F("Parameter1"),
              F("Parameter2"), F("Parameter3"), F("Parameter4"),
              F("Parameter5"), F("Parameter6"), F("Parameter7"),
              F("Parameter8"), F("Parameter9"), F("Parameter10"),
              F("CurrencyCode"), F("Seconds"),
              Field("Address", "Address", Address),
              Field("P2PAddress", "P2PAddress", P2PAddress)>>)

Request ==
    TStruct(<<F("ClientNumber"), F("BusinessUnit"), F("ValidationKey"),
              F("DataYear"), F("DataMonth"), F("CmplDataYear"),
              F("CmplDataMonth"), F("TotalRevenue"), F("ReturnFileCode"),
              F("ClientTracking"), F("ResponseType"), F("ResponseGroup"),
              F("STAN"),
              Field("ItemList", "ItemList", TSlice(RequestItem))>>)

ItemMessage == TStruct(<<F("LineNumber"), F("Message"), F("ResponseCode")>>)

Tax ==
    TStruct(<<F("CityName"), F("CountyName"),
              Field("FeeRate", "FeeRate", TFloat), F("Juriscode"),
              Field("PercentTaxable", "PercentTaxable", TFloat),
              F("Revenue"), F("RevenueBase"), F("TaxAmount"),
              F("TaxAuthorityID"), F("TaxAuthorityName"), F("TaxOnTax"),
              Field("TaxRate", "TaxRate", TFloat), F("TaxTypeCode"),
              F("TaxTypeDesc")>>)

Group ==
    TStruct(<<F("CustomerNumber"), F("InvoiceNumber"), F("LineNumber"),
              F("LocationCode"), F("StateCode"),
              Field("TaxList", "TaxList", TSlice(Tax))>>)

Response ==
    TStruct(<<F("ClientTracking"), F("HeaderMessage"),
              Field("ItemMessages", "ItemMessages", TSlice(ItemMessage)),
              F("ResponseCode"), F("STAN"), F("Successful"),
              Field("TransId", "TransId", TInt), F("TotalTax"),
              Field("GroupList", "GroupList", TSlice(Group))>>)

CancelRequest ==
    TStruct(<<F("ClientNumber"), F("ClientTracking"), F("TransId"),
              F("ValidationKey")>>)

CancelResponse ==
    TStruct(<<F("Successful"), F("ResponseCode"), F("HeaderMessage"),
              F("ClientTracking"), Field("TransId", "TransId", TInt)>>)

(***************************************************************************)
(* json.Marshal.                                                           *)
(***************************************************************************)
\* the characters are written as they are, without escapes
EscapeSymPlain(c) == <<c>>

\* one character of a string, as Marshal writes it between the quotes
EscapeSym(c) ==
    CASE c = Q -> <<B, Q>>
      [] c = B -> <<B, B>>
      [] c = NL -> <<B, "n">>
      [] c = LT -> <<B, "u003c">>
      [] c = X -> <<B, "ufffd">>
      [] OTHER -> <<c>>

\* the characters of s[lo..hi], escaped (by halves: the text is long)
RECURSIVE EscapeRange(_, _, _)
EscapeRange(s, lo, hi) ==
    IF lo > hi THEN <<>>
    ELSE IF lo = hi THEN EscapeSym(s[lo])
    ELSE LET mid == (lo + hi) \div 2 IN
         EscapeRange(s, lo, mid) \o EscapeRange(s, mid + 1, hi)

EscapeString(s) == EscapeRange(s, 1, Len(s))

RECURSIVE NatText(_)
NatText(n) ==
    IF n < 10 THEN <<DigitSeq[n + 1]>>
    ELSE NatText(n \div 10) \o <<DigitSeq[(n % 10) + 1]>>

IntText(n) == IF n < 0 THEN <<"-">> \o NatText(-n) ELSE NatText(n)

RECURSIVE ZeroPad(_, _)
ZeroPad(ds, n) == IF Len(ds) >= n THEN ds ELSE ZeroPad(<<"0">> \o ds, n)

\* strconv's shortest decimal, in the %f form Marshal uses for these magnitudes
FloatText(f) ==
    LET abs == IF f.m < 0 THEN -f.m ELSE f.m
        ds == ZeroPad(NatText(abs), f.e + 1)
        ip == SubSeq(ds, 1, Len(ds) - f.e)
        fp == SubSeq(ds, Len(ds) - f.e + 1, Len(ds))
    IN  (IF f.m < 0 THEN <<"-">> ELSE <<>>) \o ip
            \o (IF f.e = 0 THEN <<>> ELSE <<".">> \o fp)

RECURSIVE MarshalOk(_, _)
MarshalOk(v, T) ==
    CASE T.t = "float64" -> ~v.nan
      [] T.t = "slice" ->
            \A i \in DOMAIN v.elems : MarshalOk(v.elems[i], T.elem[1])
      [] T.t = "struct" ->
            \A i \in DOMAIN T.fields : MarshalOk(v[T.fields[i].name], T.fields[i].type)
      [] OTHER -> TRUE

\* Fields and elements are written by halves of the index range lo..hi: the
\* lists are long, and the text of each part does not depend on the others.
RECURSIVE MarshalText(_, _), MarshalFields(_, _, _, _), MarshalElems(_, _, _, _)
MarshalText(v, T) ==
    CASE T.t = "string" -> <<Q>> \o EscapeString(v) \o <<Q>>
      [] T.t = "int" -> IntText(v)
      [] T.t = "float64" -> FloatText(v)
      [] T.t = "slice" ->
            IF v.isNil THEN <<"null">>
            ELSE <<"[">> \o MarshalElems(v.elems, T.elem[1], 1, Len(v.elems)) \o <<"]">>
      [] T.t = "struct" ->
            <<"{">> \o MarshalFields(v, T.fields, 1, Len(T.fields)) \o <<"}">>

MarshalFields(v, fs, lo, hi) ==
    IF lo > hi THEN <<>>
    ELSE IF lo = hi
         THEN (IF lo > 1 THEN <<",">> ELSE <<>>)
                 \o <<Q, fs[lo].key, Q, ":">> \o MarshalText(v[fs[lo].name], fs[lo].type)
    ELSE LET mid == (lo + hi) \div 2 IN
         MarshalFields(v, fs, lo, mid) \o MarshalFields(v, fs, mid + 1, hi)

MarshalElems(es, T, lo, hi) ==
    IF lo > hi THEN <<>>
    ELSE IF lo = hi
         THEN (IF lo > 1 THEN <<",">> ELSE <<>>) \o MarshalText(es[lo], T)
    ELSE LET mid == (lo + hi) \div 2 IN
         MarshalElems(es, T, lo, mid) \o MarshalElems(es, T, mid + 1, hi)

\* json.Marshal(v): the text, or an error (NaN and the infinities have no JSON)
Marshal(v, T) ==
    IF MarshalOk(v, T) THEN [ok |-> TRUE, text |-> MarshalText(v, T)]
    ELSE [ok |-> FALSE, text |-> <<>>]

(***************************************************************************)
(* json.Unmarshal: the scanner.  A parse result is [ok, tree, pos]; a tree *)
(* is [k, s, items]: the kind, the characters (a string, a number's        *)
(* literal) and the members or elements.                                   *)
(***************************************************************************)
Tree(k, s, items) == [k |-> k, s |-> s, items |-> items]

ParseFail == [ok |-> FALSE, tree |-> Tree("null", <<>>, <<>>), pos |-> 0]

ParseOk(tree, pos) == [ok |-> TRUE, tree |-> tree, pos |-> pos]

RECURSIVE SkipWs(_, _)
SkipWs(txt, i) ==
    IF i <= Len(txt) /\ txt[i] \in WS THEN SkipWs(txt, i + 1) ELSE i

\* what follows a backslash inside a string, and the character it stands for
Escapes == {Q, B, "n", "u003c", "ufffd"}

Unescape(d) ==
    CASE d = Q -> Q
      [] d = B -> B
      [] d = "n" -> NL
      [] d = "u003c" -> LT
      [] d = "ufffd" -> R

\* The characters of a string are scanned by halves (the text is long): ScanRange
\* scans txt[lo..hi] from the state st ("plain", or "escape" after a backslash) and
\* gives the characters read, the state it ends in, the place of the closing quote
\* (0: none yet) and whether the text went wrong.
ScanOne(c, st) ==
    IF st = "escape"
    THEN IF c \in Escapes
         THEN [ok |-> TRUE, out |-> <<Unescape(c)>>, st |-> "plain", end |-> 0]
         ELSE [ok |-> FALSE, out |-> <<>>, st |-> "plain", end |-> 0]
    ELSE CASE c = Q -> [ok |-> TRUE, out |-> <<>>, st |-> "plain", end |-> 1]
           [] c = B -> [ok |-> TRUE, out |-> <<>>, st |-> "escape", end |-> 0]
           [] c = NL -> [ok |-> FALSE, out |-> <<>>, st |-> "plain", end |-> 0]
           [] c = X -> [ok |-> TRUE, out |-> <<R>>, st |-> "plain", end |-> 0]
           [] OTHER -> [ok |-> TRUE, out |-> <<c>>, st |-> "plain", end |-> 0]

\* the two halves of a range, joined
ScanJoin(l, r) == [r EXCEPT !.out = l.out \o r.out]

\* one character, at the place lo
ScanAt(one, lo) == [one EXCEPT !.end = IF one.end = 1 THEN lo ELSE 0]

RECURSIVE ScanRange(_, _, _, _), ScanRest(_, _, _, _)
ScanRange(txt, lo, hi, st) ==
    IF lo = hi THEN ScanAt(ScanOne(txt[lo], st), lo)
    ELSE ScanRest(txt, ((lo + hi) \div 2) + 1, hi,
                  ScanRange(txt, lo, (lo + hi) \div 2, st))

\* txt[lo..hi] after l, the scan of what is before it
ScanRest(txt, lo, hi, l) ==
    IF ~l.ok \/ l.end # 0 THEN l
    ELSE ScanJoin(l, ScanRange(txt, lo, hi, l.st))

\* the string that the scan r of its characters gives
ScanStringEnd(r) ==
    IF r.ok /\ r.end # 0 THEN ParseOk(Tree("string", r.out, <<>>), r.end + 1)
    ELSE ParseFail

\* the characters after an opening quote, up to the closing one
ScanString(txt, j) ==
    IF j > Len(txt) THEN ParseFail
    ELSE ScanStringEnd(ScanRange(txt, j, Len(txt), "plain"))

RECURSIVE DigitsEnd(_, _)
DigitsEnd(txt, j) ==
    IF j <= Len(txt) /\ txt[j] \in Digits THEN DigitsEnd(txt, j + 1) ELSE j

\* the number txt[i..m-1], whose integer part is txt[j..k-1]
ScanNumberEnd(txt, i, j, k, m) ==
    IF k = j \/ m = k + 1 THEN ParseFail
    ELSE ParseOk(Tree("number", SubSeq(txt, i, m - 1), <<>>), m)

\* (. [0-9]+)?
ScanFraction(txt, i, j, k) ==
    ScanNumberEnd(txt, i, j, k,
                  IF k <= Len(txt) /\ txt[k] = "." THEN DigitsEnd(txt, k + 1) ELSE k)

\* (0 | [1-9][0-9]*)
ScanInteger(txt, i, j) ==
    ScanFraction(txt, i, j,
                 IF j <= Len(txt) /\ txt[j] = "0" THEN j + 1 ELSE DigitsEnd(txt, j))

\* -? (0 | [1-9][0-9]*) (. [0-9]+)?
ScanNumber(txt, i) == ScanInteger(txt, i, IF txt[i] = "-" THEN i + 1 ELSE i)

\* The scanner is a machine with a stack of the open objects and arrays, as
\* encoding/json's is.  Its state is [ok, done, pos, expect, stack, tree]: pos is
\* the next character, expect what may come there, a stack frame is [k, items,
\* key] (the kind, the members or elements read so far, the key awaiting its
\* value), and tree is the finished value once done.
ScanFail ==
    [ok |-> FALSE, done |-> TRUE, pos |-> 0, expect |-> "value", stack |-> <<>>,
     tree |-> Tree("null", <<>>, <<>>)]

Frame(k) == [k |-> k, items |-> <<>>, key |-> <<>>]

Pop(stack) == SubSeq(stack, 1, Len(stack) - 1)

\* a value is finished: it is the whole text's, or goes into the open frame
Complete(st, tree, pos, stack) ==
    IF stack = <<>>
    THEN [st EXCEPT !.done = TRUE, !.pos = pos, !.stack = <<>>, !.tree = tree]
    ELSE LET top == stack[Len(stack)]
             item == IF top.k = "object" THEN [key |-> top.key, val |-> tree]
                     ELSE tree
         IN  [st EXCEPT !.pos = pos, !.expect = "commaOrEnd",
                        !.stack = Append(Pop(stack),
                                         [top EXCEPT !.items = Append(@, item)])]

\* the open frame is closed by } or ]
Close(st, pos) ==
    LET top == st.stack[Len(st.stack)] IN
    Complete(st, Tree(top.k, <<>>, top.items), pos, Pop(st.stack))

\* a string or a number r has been scanned as a value
ScanValue(st, r) ==
    IF r.ok THEN Complete(st, r.tree, r.pos, st.stack) ELSE ScanFail

\* a string r has been scanned as a key
ScanKey(st, r) ==
    IF r.ok
    THEN [st EXCEPT !.pos = r.pos, !.expect = "colon",
                    !.stack = Append(Pop(st.stack),
                                     [st.stack[Len(st.stack)] EXCEPT
                                         !.key = r.tree.s])]
    ELSE ScanFail

\* one step of the scanner: the token at i, with c its first character
ScanToken(txt, st, i, c) ==
    CASE st.expect \in {"value", "valueOrEnd"} ->
           CASE c = "]" /\ st.expect = "valueOrEnd" -> Close(st, i + 1)
             [] c = Q -> ScanValue(st, ScanString(txt, i + 1))
             [] c = "{" ->
                   [st EXCEPT !.pos = i + 1, !.expect = "keyOrEnd",
                              !.stack = Append(@, Frame("object"))]
             [] c = "[" ->
                   [st EXCEPT !.pos = i + 1, !.expect = "valueOrEnd",
                              !.stack = Append(@, Frame("array"))]
             [] c \in {"null", "true", "false"} ->
                   Complete(st, Tree(c, <<>>, <<>>), i + 1, st.stack)
             [] c \in Digits \cup {"-"} -> ScanValue(st, ScanNumber(txt, i))
             [] OTHER -> ScanFail
      [] st.expect \in {"key", "keyOrEnd"} ->
           CASE c = "}" /\ st.expect = "keyOrEnd" -> Close(st, i + 1)
             [] c = Q -> ScanKey(st, ScanString(txt, i + 1))
             [] OTHER -> ScanFail
      [] st.expect = "colon" ->
           IF c = ":" THEN [st EXCEPT !.pos = i + 1, !.expect = "value"]
           ELSE ScanFail
      [] st.expect = "commaOrEnd" ->
           CASE c = "," ->
                   [st EXCEPT !.pos = i + 1,
                              !.expect = IF st.stack[Len(st.stack)].k = "object"
                                         THEN "key" ELSE "value"]
             [] c \in {"}", "]"} ->
                   IF st.stack[Len(st.stack)].k = (IF c = "}" THEN "object" ELSE "array")
                   THEN Close(st, i + 1)
                   ELSE ScanFail
             [] OTHER -> ScanFail

\* the token after the white space at i
ScanFrom(txt, st, i) == IF i > Len(txt) THEN ScanFail ELSE ScanToken(txt, st, i, txt[i])

ScanStep(txt, st) == ScanFrom(txt, st, SkipWs(txt, st.pos))

\* up to n steps (by halves of n: the text is long)
RECURSIVE ScanLoop(_, _, _)
ScanLoop(txt, st, n) ==
    IF st.done THEN st
    ELSE IF n <= 1 THEN ScanStep(txt, st)
    ELSE ScanLoop(txt, ScanLoop(txt, st, n \div 2), n - (n \div 2))

\* the scanner's first state
ScanStart ==
    [ok |-> TRUE, done |-> FALSE, pos |-> 1, expect |-> "value", stack |-> <<>>,
     tree |-> Tree("null", <<>>, <<>>)]

\* the scanner has stopped in st: one value, and nothing but white space after it
ParseEnd(txt, st) ==
    IF st.ok /\ st.done /\ SkipWs(txt, st.pos) = Len(txt) + 1
    THEN ParseOk(st.tree, st.pos)
    ELSE ParseFail

Parse(txt) == ParseEnd(txt, ScanLoop(txt, ScanStart, Len(txt)))

(***************************************************************************)
(* json.Unmarshal: decoding a tree into a Go value of a given type.        *)
(***************************************************************************)
RECURSIVE NatOf(_)
NatOf(ds) ==
    IF ds = <<>> THEN 0
    ELSE 10 * NatOf(SubSeq(ds, 1, Len(ds) - 1)) + DigitVal(ds[Len(ds)])

IsIntLiteral(s) == \A i \in DOMAIN s : s[i] # "."

IntOf(s) == IF s[1] = "-" THEN -NatOf(Tail(s)) ELSE NatOf(s)

\* a fraction's digits without the zeros at its end
RECURSIVE StripZeros(_)
StripZeros(ds) ==
    IF ds # <<>> /\ ds[Len(ds)] = "0" THEN StripZeros(SubSeq(ds, 1, Len(ds) - 1))
    ELSE ds

\* strconv.ParseFloat of a literal
FloatOf(s) ==
    LET neg == s[1] = "-"
        u == IF neg THEN Tail(s) ELSE s
        dot == IF IsIntLiteral(u) THEN Len(u) + 1
               ELSE CHOOSE i \in DOMAIN u : u[i] = "."
        fp == StripZeros(SubSeq(u, dot + 1, Len(u)))
        m == NatOf(SubSeq(u, 1, dot - 1) \o fp)
    IN  Float(IF neg THEN -m ELSE m, Len(fp))

\* strings.EqualFold on keys: the spellings that differ only in case
Fold(k) ==
    CASE k = "D" -> "d"
      [] k = "transid" -> "TransId"
      [] OTHER -> k

\* the field a key names: the exact match first, then the first match under folding
FieldFor(T, key) ==
    LET exact == {i \in DOMAIN T.fields : key = <<T.fields[i].key>>}
        folded == {i \in DOMAIN T.fields :
                      Len(key) = 1 /\ Fold(key[1]) = Fold(T.fields[i].key)}
        Min(S) == CHOOSE i \in S : \A j \in S : i <= j
    IN  IF exact # {} THEN Min(exact)
        ELSE IF folded # {} THEN Min(folded)
        ELSE 0

\* the elements d, as a slice
DecodedSlice(d) == [ok |-> d.ok, v |-> Slice(d.v)]

\* the member's value d goes into the field n of what is decoded so far
DecodedField(st, n, d) == [ok |-> st.ok /\ d.ok, v |-> [st.v EXCEPT ![n] = d.v]]

\* the element d goes before those decoded so far
DecodedElemFirst(st, d) == [ok |-> st.ok /\ d.ok, v |-> <<d.v>> \o st.v]

\* the element d goes after those decoded so far
DecodedElem(st, d) == [ok |-> st.ok /\ d.ok, v |-> Append(st.v, d.v)]

\* Members and elements are decoded in the order of the text, lo..hi by halves:
\* what the first half leaves ([ok, v]) is what the second half starts from.
RECURSIVE Decode(_, _, _), DecodeMember(_, _, _, _), DecodeMembers(_, _, _, _, _),
          DecodeMembersRest(_, _, _, _, _), DecodeElems(_, _, _, _, _),
          DecodeElemsRest(_, _, _, _, _)
Decode(tree, T, cur) ==
    IF tree.k = "null"
    THEN [ok |-> TRUE, v |-> IF T.t = "slice" THEN NilSlice ELSE cur]
    ELSE CASE T.t = "string" ->
                IF tree.k = "string" THEN [ok |-> TRUE, v |-> tree.s]
                ELSE [ok |-> FALSE, v |-> cur]
           [] T.t = "int" ->
                IF tree.k = "number" /\ IsIntLiteral(tree.s)
                THEN [ok |-> TRUE, v |-> IntOf(tree.s)]
                ELSE [ok |-> FALSE, v |-> cur]
           [] T.t = "float64" ->
                IF tree.k = "number" THEN [ok |-> TRUE, v |-> FloatOf(tree.s)]
                ELSE [ok |-> FALSE, v |-> cur]
           [] T.t = "slice" ->
                IF tree.k = "array"
                THEN DecodedSlice(DecodeElems(tree.items, T.elem[1], 1, Len(tree.items),
                                              [ok |-> TRUE, v |-> <<>>]))
                ELSE [ok |-> FALSE, v |-> cur]
           [] T.t = "struct" ->
                IF tree.k = "object"
                THEN DecodeMembers(tree.items, T, 1, Len(tree.items),
                                   [ok |-> TRUE, v |-> cur])
                ELSE [ok |-> FALSE, v |-> cur]

\* the member m, whose key names the field number f (0: no field)
DecodeMember(m, T, f, st) ==
    IF f = 0 THEN st
    ELSE DecodedField(st, T.fields[f].name,
                      Decode(m.val, T.fields[f].type, st.v[T.fields[f].name]))

\* a later duplicate decodes over an earlier one, an unknown key is skipped, and
\* a type error is kept while decoding goes on
DecodeMembers(ms, T, lo, hi, st) ==
    IF lo > hi THEN st
    ELSE IF lo = hi THEN DecodeMember(ms[lo], T, FieldFor(T, ms[lo].key), st)
    ELSE DecodeMembersRest(ms, T, ((lo + hi) \div 2) + 1, hi,
                           DecodeMembers(ms, T, lo, (lo + hi) \div 2, st))

DecodeMembersRest(ms, T, lo, hi, l) ==
    IF l.ok THEN DecodeMembers(ms, T, lo, hi, l)
    ELSE [DecodeMembers(ms, T, lo, hi, l) EXCEPT !.ok = FALSE]

DecodeElems(es, T, lo, hi, st) ==
    IF lo > hi THEN st
    ELSE IF lo = hi THEN DecodedElem(st, Decode(es[lo], T, Zero(T)))
    ELSE DecodeElemsRest(es, T, ((lo + hi) \div 2) + 1, hi,
                         DecodeElems(es, T, lo, (lo + hi) \div 2, st))

DecodeElemsRest(es, T, lo, hi, l) ==
    IF l.ok THEN DecodeElems(es, T, lo, hi, l)
    ELSE [DecodeElems(es, T, lo, hi, l) EXCEPT !.ok = FALSE]

\* the scanned text p is decoded: a syntax error leaves cur alone
UnmarshalTree(p, T, cur) ==
    IF ~p.ok THEN [ok |-> FALSE, v |-> cur] ELSE Decode(p.tree, T, cur)

\* json.Unmarshal(txt, &cur)
Unmarshal(txt, T, cur) == UnmarshalTree(Parse(txt), T, cur)

(***************************************************************************)
(* net/http, as far as the client uses it.                                 *)
(***************************************************************************)
\* url.Parse: the URLs it accepts
UrlParses(u) == u # ":bad"

\* http.NewRequest(method, url, body)
NewRequest(method, url, body) ==
    IF UrlParses(url)
    THEN [ok |-> TRUE,
          r |-> [Method |-> method, URL |-> url, Header |-> <<>>, Body |-> body]]
    ELSE [ok |-> FALSE,
          r |-> [Method |-> "", URL |-> "", Header |-> <<>>, Body |-> <<>>]]

\* r.Header.Add(key, value)
HeaderAdd(r, key, value) == [r EXCEPT !.Header = Append(@, <<key, value>>)]

NoRequest == [Method |-> "", URL |-> "", Header |-> <<>>, Body |-> <<>>]

\* http.StatusOK
StatusOK == 200

\* a response: the status, the body's bytes, and whether reading the body to
\* its end succeeds (a connection may break while the body is read)
HttpResponse(code, body, readOk) ==
    [StatusCode |-> code, Body |-> body, readOk |-> readOk]

NoResponse == HttpResponse(0, <<>>, TRUE)

(***************************************************************************)
(* Errors and results.                                                     *)
(***************************************************************************)
\* an error value: what failed, and the status it carries (0: none)
Err(kind, status) == [kind |-> kind, status |-> status]

\* the nil error
NoErr == Err("nil", 0)

\* a *Response or *CancelResponse: nil, or a pointer to the value v
NilResult == [isNil |-> TRUE, v |-> <<>>]

Result(v) == [isNil |-> FALSE, v |-> v]

(***************************************************************************)
(* buildRequest, buildCancelRequest, parseResponse, parseCancelResponse.   *)
(***************************************************************************)
\* lines 134-141: the request that http.NewRequest made gets its header, and a
\* failure of http.NewRequest is returned
buildPost(r) ==
    IF ~r.ok THEN [ok |-> FALSE, err |-> Err("url", 0), r |-> NoRequest]
    ELSE [ok |-> TRUE, err |-> NoErr,
          r |-> HeaderAdd(r.r, "Content-Type", "application/json")]

\* lines 127-137: a failure to encode the wrapper is returned, and its bytes are
\* POSTed to url
buildWrapped(url, reqWrapperBytes) ==
    IF ~reqWrapperBytes.ok
    THEN [ok |-> FALSE, err |-> Err("encoding", 0), r |-> NoRequest]
    ELSE buildPost(NewRequest("POST", url, reqWrapperBytes.text))

\* the bytes of the request go into the wrapper as they are, as an object
buildRequestWrapperNested(url, reqBytes) ==
    IF ~reqBytes.ok THEN [ok |-> FALSE, err |-> Err("encoding", 0), r |-> NoRequest]
    ELSE buildWrapped(url, [ok |-> TRUE,
                            text |-> <<"{", Q, "request", Q, ":">> \o reqBytes.text
                                         \o <<"}">>])

\* lines 119-128: a failure to encode the request is returned, and its bytes go
\* into the wrapper as a string
buildRequestWrapper(url, reqBytes) ==
    IF ~reqBytes.ok THEN [ok |-> FALSE, err |-> Err("encoding", 0), r |-> NoRequest]
    ELSE buildWrapped(url, Marshal([Request |-> reqBytes.text], requestWrapper))

\* json.Marshal(req), then json.Marshal of the wrapper that holds the result
\* as a string, then a POST of those bytes to url (c.Url)
buildRequest(url, req) == buildRequestWrapper(url, Marshal(req, Request))

\* lines 145-154: as lines 119-128, with the wrapper of a cancellation
buildCancelRequestWrapper(url, reqBytes) ==
    IF ~reqBytes.ok THEN [ok |-> FALSE, err |-> Err("encoding", 0), r |-> NoRequest]
    ELSE buildWrapped(url, Marshal([Request |-> reqBytes.text], cancelRequestWrapper))

\* the same for a CancelRequest, its wrapper, and c.CancelUrl
buildCancelRequest(url, req) ==
    buildCancelRequestWrapper(url, Marshal(req, CancelRequest))

\* a decoded Response with another ResponseCode than 9999 is an error
parseResponsePayloadInterpreting(res) ==
    IF ~res.ok THEN [res |-> NilResult, err |-> Err("payload", 0)]
    ELSE IF res.v.ResponseCode # <<"9", "9", "9", "9">>
    THEN [res |-> NilResult, err |-> Err("rejected", 0)]
    ELSE [res |-> Result(res.v), err |-> NoErr]

\* lines 184-189: the payload decoded into a Response, or the payload's error
parseResponsePayload(res) ==
    IF ~res.ok THEN [res |-> NilResult, err |-> Err("payload", 0)]
    ELSE [res |-> Result(res.v), err |-> NoErr]

\* one error for both decodings
parseResponseWrapperOneError(respw) ==
    IF ~respw.ok THEN [res |-> NilResult, err |-> Err("payload", 0)]
    ELSE parseResponsePayload(Unmarshal(respw.v.D, Response, Zero(Response)))

\* lines 179-185: the wrapper's error, or the wrapper's string D decoded
parseResponseWrapper(respw) ==
    IF ~respw.ok THEN [res |-> NilResult, err |-> Err("wrapper", 0)]
    ELSE parseResponsePayload(Unmarshal(respw.v.D, Response, Zero(Response)))

\* a wrapper with an empty string is taken for an empty Response
parseResponseEmptyAsZero(resp) ==
    IF ~resp.readOk THEN [res |-> NilResult, err |-> Err("read", 0)]
    ELSE IF Unmarshal(resp.Body, ResponseWrapper, Zero(ResponseWrapper))
               = [ok |-> TRUE, v |-> Zero(ResponseWrapper)]
    THEN [res |-> Result(Zero(Response)), err |-> NoErr]
    ELSE parseResponseWrapper(Unmarshal(resp.Body, ResponseWrapper,
                                        Zero(ResponseWrapper)))

\* ioutil.ReadAll, then json.Unmarshal into the wrapper, then json.Unmarshal of
\* the wrapper's string into a Response
parseResponse(resp) ==
    IF ~resp.readOk THEN [res |-> NilResult, err |-> Err("read", 0)]
    ELSE parseResponseWrapper(Unmarshal(resp.Body, ResponseWrapper,
                                        Zero(ResponseWrapper)))

\* lines 200-206: the body decoded into a CancelResponse, or the error
parseCancelResponsePayload(res) ==
    IF ~res.ok THEN [res |-> NilResult, err |-> Err("payload", 0)]
    ELSE [res |-> Result(res.v), err |-> NoErr]

\* the body of a cancellation's response is unwrapped as a tax response's is
parseCancelResponseUnwrapping(resp) == parseResponse(resp)

\* ioutil.ReadAll, then json.Unmarshal of the body into a CancelResponse
parseCancelResponse(resp) ==
    IF ~resp.readOk THEN [res |-> NilResult, err |-> Err("read", 0)]
    ELSE parseCancelResponsePayload(Unmarshal(resp.Body, CancelResponse,
                                              Zero(CancelResponse)))

(***************************************************************************)
(* The values of the repository's tests.                                    *)
(***************************************************************************)
\* getTestRequest: the request of Test_buildRequest
testAddress == [Zero(Address) EXCEPT !.VerifyAddress = <<"false">>]

testItem ==
    [Zero(RequestItem) EXCEPT
        !.LineNumber = <<"0", "1">>,
        !.InvoiceNumber = <<"INV", "-", "0", "0", "2">>,
        !.CustomerNumber = <<"0", "0", "1">>,
        !.TransDate = <<"0", "5", "/", "2", "6", "/", "2", "0", "1", "7">>,
        !.Revenue = <<"1", "0", "0">>,
        !.TaxIncludedCode = <<"0">>,
        !.Units = <<"4">>,
        !.UnitType = <<"0", "0">>,
        !.TaxSitusRule = <<"0", "1">>,
        !.TransTypeCode = <<"0", "5", "0", "1", "0", "4">>,
        !.SalesTypeCode = <<"B">>,
        !.RegulatoryCode = <<"9", "9">>,
        !.BillingDaysInPeriod = <<"0">>,
        !.OrigNumber = <<"9", "0", "4", "3", "1", "0", "1", "7", "2", "3">>,
        !.TermNumber = <<"9", "0", "4", "3", "1", "0", "1", "7", "2", "3">>,
        !.BillToNumber = <<"9", "0", "4", "3", "1", "0", "1", "7", "2", "3">>,
        !.Seconds = <<"4">>,
        !.TaxExemptionCodeList = Slice(<<>>),
        !.Address = testAddress,
        !.P2PAddress = testAddress]

getTestRequest ==
    [Zero(Request) EXCEPT
        !.ClientNumber = <<"0", "0", "0", "0", "0", "0", "0", "0", "1">>,
        !.ValidationKey = <<"D4E909CF", "-", "76C1", "-", "4", "9", "4", "0", "-", "A00F", "-", "9B80FA363DE3">>,
        !.DataYear = <<"2", "0", "1", "7">>,
        !.DataMonth = <<"1", "1">>,
        !.CmplDataYear = <<"2", "0", "1", "6">>,
        !.CmplDataMonth = <<"0", "6">>,
        !.TotalRevenue = <<"1", "0", "0">>,
        !.ClientTracking = <<"Certi">>,
        !.ResponseType = <<"D2">>,
        !.ResponseGroup = <<"0", "0">>,
        !.ReturnFileCode = <<"0">>,
        !.ItemList = Slice(<<testItem>>)]

\* the body Test_buildRequest expects
expectedBody ==
    <<"{", "\"", "request", "\"", ":", "\"", "{", "\\", "\"", "ClientNumber",
      "\\", "\"", ":", "\\", "\"", "0", "0", "0", "0", "0", "0", "0", "0", "1",
      "\\", "\"", ",", "\\", "\"", "BusinessUnit", "\\", "\"", ":", "\\", "\"",
      "\\", "\"", ",", "\\", "\"", "ValidationKey", "\\", "\"", ":", "\\",
      "\"", "D4E909CF", "-", "76C1", "-", "4", "9", "4", "0", "-", "A00F", "-",
      "9B80FA363DE3", "\\", "\"", ",", "\\", "\"", "DataYear", "\\", "\"", ":",
      "\\", "\"", "2", "0", "1", "7", "\\", "\"", ",", "\\", "\"", "DataMonth",
      "\\", "\"", ":", "\\", "\"", "1", "1", "\\", "\"", ",", "\\", "\"",
      "CmplDataYear", "\\", "\"", ":", "\\", "\"", "2", "0", "1", "6", "\\",
      "\"", ",", "\\", "\"", "CmplDataMonth", "\\", "\"", ":", "\\", "\"", "0",
      "6", "\\", "\"", ",", "\\", "\"", "TotalRevenue", "\\", "\"", ":", "\\",
      "\"", "1", "0", "0", "\\", "\"", ",", "\\", "\"", "ReturnFileCode", "\\",
      "\"", ":", "\\", "\"", "0", "\\", "\"", ",", "\\", "\"",
      "ClientTracking", "\\", "\"", ":", "\\", "\"", "Certi", "\\", "\"", ",",
      "\\", "\"", "ResponseType", "\\", "\"", ":", "\\", "\"", "D2", "\\",
      "\"", ",", "\\", "\"", "ResponseGroup", "\\", "\"", ":", "\\", "\"", "0",
      "0", "\\", "\"", ",", "\\", "\"", "STAN", "\\", "\"", ":", "\\", "\"",
      "\\", "\"", ",", "\\", "\"", "ItemList", "\\", "\"", ":", "[", "{", "\\",
      "\"", "LineNumber", "\\", "\"", ":", "\\", "\"", "0", "1", "\\", "\"",
      ",", "\\", "\"", "InvoiceNumber", "\\", "\"", ":", "\\", "\"", "INV",
      "-", "0", "0", "2", "\\", "\"", ",", "\\", "\"", "CustomerNumber", "\\",
      "\"", ":", "\\", "\"", "0", "0", "1", "\\", "\"", ",", "\\", "\"",
      "OrigNumber", "\\", "\"", ":", "\\", "\"", "9", "0", "4", "3", "1", "0",
      "1", "7", "2", "3", "\\", "\"", ",", "\\", "\"", "TermNumber", "\\",
      "\"", ":", "\\", "\"", "9", "0", "4", "3", "1", "0", "1", "7", "2", "3",
      "\\", "\"", ",", "\\", "\"", "BillToNumber", "\\", "\"", ":", "\\", "\"",
      "9", "0", "4", "3", "1", "0", "1", "7", "2", "3", "\\", "\"", ",", "\\",
      "\"", "TransDate", "\\", "\"", ":", "\\", "\"", "0", "5", "/", "2", "6",
      "/", "2", "0", "1", "7", "\\", "\"", ",", "\\", "\"",
      "BillingPeriodStartDate", "\\", "\"", ":", "\\", "\"", "\\", "\"", ",",
      "\\", "\"", "BillingPeriodEndDate", "\\", "\"", ":", "\\", "\"", "\\",
      "\"", ",", "\\", "\"", "Revenue", "\\", "\"", ":", "\\", "\"", "1", "0",
      "0", "\\", "\"", ",", "\\", "\"", "TaxIncludedCode", "\\", "\"", ":",
      "\\", "\"", "0", "\\", "\"", ",", "\\", "\"", "Units", "\\", "\"", ":",
      "\\", "\"", "4", "\\", "\"", ",", "\\", "\"", "UnitType", "\\", "\"",
      ":", "\\", "\"", "0", "0", "\\", "\"", ",", "\\", "\"", "TaxSitusRule",
      "\\", "\"", ":", "\\", "\"", "0", "1", "\\", "\"", ",", "\\", "\"",
      "TransTypeCode", "\\", "\"", ":", "\\", "\"", "0", "5", "0", "1", "0",
      "4", "\\", "\"", ",", "\\", "\"", "SalesTypeCode", "\\", "\"", ":", "\\",
      "\"", "B", "\\", "\"", ",", "\\", "\"", "RegulatoryCode", "\\", "\"",
      ":", "\\", "\"", "9", "9", "\\", "\"", ",", "\\", "\"",
      "TaxExemptionCodeList", "\\", "\"", ":", "[", "]", ",", "\\", "\"",
      "ExemptReasonCode", "\\", "\"", ":", "\\", "\"", "\\", "\"", ",", "\\",
      "\"", "UDF", "\\", "\"", ":", "\\", "\"", "\\", "\"", ",", "\\", "\"",
      "UDF2", "\\", "\"", ":", "\\", "\"", "\\", "\"", ",", "\\", "\"",
      "CostCenter", "\\", "\"", ":", "\\", "\"", "\\", "\"", ",", "\\", "\"",
      "GLAccount", "\\", "\"", ":", "\\", "\"", "\\", "\"", ",", "\\", "\"",
      "MaterialGroup", "\\", "\"", ":", "\\", "\"", "\\", "\"", ",", "\\",
      "\"", "BillingDaysInPeriod", "\\", "\"", ":", "\\", "\"", "0", "\\",
      "\"", ",", "\\", "\"", "OriginCountryCode", "\\", "\"", ":", "\\", "\"",
      "\\", "\"", ",", "\\", "\"", "DestCountryCode", "\\", "\"", ":", "\\",
      "\"", "\\", "\"", ",", "\\", "\"", "Parameter1", "\\", "\"", ":", "\\",
      "\"", "\\", "\"", ",", "\\", "\"", "Parameter2", "\\", "\"", ":", "\\",
      "\"", "\\", "\"", ",", "\\", "\"", "Parameter3", "\\", "\"", ":", "\\",
      "\"", "\\", "\"", ",", "\\", "\"", "Parameter4", "\\", "\"", ":", "\\",
      "\"", "\\", "\"", ",", "\\", "\"", "Parameter5", "\\", "\"", ":", "\\",
      "\"", "\\", "\"", ",", "\\", "\"", "Parameter6", "\\", "\"", ":", "\\",
      "\"", "\\", "\"", ",", "\\", "\"", "Parameter7", "\\", "\"", ":", "\\",
      "\"", "\\", "\"", ",", "\\", "\"", "Parameter8", "\\", "\"", ":", "\\",
      "\"", "\\", "\"", ",", "\\", "\"", "Parameter9", "\\", "\"", ":", "\\",
      "\"", "\\", "\"", ",", "\\", "\"", "Parameter10", "\\", "\"", ":", "\\",
      "\"", "\\", "\"", ",", "\\", "\"", "CurrencyCode", "\\", "\"", ":", "\\",
      "\"", "\\", "\"", ",", "\\", "\"", "Seconds", "\\", "\"", ":", "\\",
      "\"", "4", "\\", "\"", ",", "\\", "\"", "Address", "\\", "\"", ":", "{",
      "\\", "\"", "PrimaryAddressLine", "\\", "\"", ":", "\\", "\"", "\\",
      "\"", ",", "\\", "\"", "SecondaryAddressLine", "\\", "\"", ":", "\\",
      "\"", "\\", "\"", ",", "\\", "\"", "County", "\\", "\"", ":", "\\", "\"",
      "\\", "\"", ",", "\\", "\"", "City", "\\", "\"", ":", "\\", "\"", "\\",
      "\"", ",", "\\", "\"", "State", "\\", "\"", ":", "\\", "\"", "\\", "\"",
      ",", "\\", "\"", "PostalCode", "\\", "\"", ":", "\\", "\"", "\\", "\"",
      ",", "\\", "\"", "Plus4", "\\", "\"", ":", "\\", "\"", "\\", "\"", ",",
      "\\", "\"", "Country", "\\", "\"", ":", "\\", "\"", "\\", "\"", ",",
      "\\", "\"", "Geocode", "\\", "\"", ":", "\\", "\"", "\\", "\"", ",",
      "\\", "\"", "VerifyAddress", "\\", "\"", ":", "\\", "\"", "false", "\\",
      "\"", "}", ",", "\\", "\"", "P2PAddress", "\\", "\"", ":", "{", "\\",
      "\"", "PrimaryAddressLine", "\\", "\"", ":", "\\", "\"", "\\", "\"", ",",
      "\\", "\"", "SecondaryAddressLine", "\\", "\"", ":", "\\", "\"", "\\",
      "\"", ",", "\\", "\"", "County", "\\", "\"", ":", "\\", "\"", "\\", "\"",
      ",", "\\", "\"", "City", "\\", "\"", ":", "\\", "\"", "\\", "\"", ",",
      "\\", "\"", "State", "\\", "\"", ":", "\\", "\"", "\\", "\"", ",", "\\",
      "\"", "PostalCode", "\\", "\"", ":", "\\", "\"", "\\", "\"", ",", "\\",
      "\"", "Plus4", "\\", "\"", ":", "\\", "\"", "\\", "\"", ",", "\\", "\"",
      "Country", "\\", "\"", ":", "\\", "\"", "\\", "\"", ",", "\\", "\"",
      "Geocode", "\\", "\"", ":", "\\", "\"", "\\", "\"", ",", "\\", "\"",
      "VerifyAddress", "\\", "\"", ":", "\\", "\"", "false", "\\", "\"", "}",
      "}", "]", "}", "\"", "}">>

\* getTestResponse: the body Test_parseResponse decodes
getTestResponse ==
    <<"{", "\"", "d", "\"", ":", "\"", "{", "\\", "\"", "ClientTracking", "\\",
      "\"", ":", "\\", "\"", "Certi", "\\", "\"", ",", "\\", "\"",
      "ItemMessages", "\\", "\"", ":", "[", "{", "\\", "\"", "LineNumber",
      "\\", "\"", ":", "\\", "\"", "0", "\\", "\"", ",", "\\", "\"", "Message",
      "\\", "\"", ":", "\\", "\"", "Bill", " ", "To", " ", "Number", " ", "is",
      " ", "Required", "\\", "\"", ",", "\\", "\"", "ResponseCode", "\\", "\"",
      ":", "\\", "\"", "9", "1", "3", "1", "\\", "\"", "}", "]", ",", "\\",
      "\"", "GroupList", "\\", "\"", ":", "[", "{", "\\", "\"",
      "CustomerNumber", "\\", "\"", ":", "\\", "\"", "0", "0", "1", "\\", "\"",
      ",", "\\", "\"", "InvoiceNumber", "\\", "\"", ":", "\\", "\"", "INV",
      "-", "0", "0", "2", "\\", "\"", ",", "\\", "\"", "LineNumber", "\\",
      "\"", ":", "\\", "\"", "0", "1", "\\", "\"", ",", "\\", "\"",
      "LocationCode", "\\", "\"", ":", "\\", "\"", "\\", "\"", ",", "\\", "\"",
      "StateCode", "\\", "\"", ":", "\\", "\"", "FL", "\\", "\"", ",", "\\",
      "\"", "TaxList", "\\", "\"", ":", "[", "{", "\\", "\"", "CityName", "\\",
      "\"", ":", "\\", "\"", "FERNANDINA", " ", "BEACH", "\\", "\"", ",", "\\",
      "\"", "CountyName", "\\", "\"", ":", "\\", "\"", "NASSAU", "\\", "\"",
      ",", "\\", "\"", "FeeRate", "\\", "\"", ":", "0", ",", "\\", "\"",
      "Juriscode", "\\", "\"", ":", "\\", "\"", "\\", "\"", ",", "\\", "\"",
      "PercentTaxable", "\\", "\"", ":", "1", ".", "0", "0", "0", "0", "0",
      "0", ",", "\\", "\"", "Revenue", "\\", "\"", ":", "\\", "\"", "1", "0",
      "0", ".", "0", "0", "\\", "\"", ",", "\\", "\"", "RevenueBase", "\\",
      "\"", ":", "\\", "\"", "1", "1", "3", ".", "7", "1", "\\", "\"", ",",
      "\\", "\"", "TaxAmount", "\\", "\"", ":", "\\", "\"", "8", ".", "4", "6",
      "\\", "\"", ",", "\\", "\"", "TaxAuthorityID", "\\", "\"", ":", "\\",
      "\"", "1", "2", "0", "0", "9", "\\", "\"", ",", "\\", "\"",
      "TaxAuthorityName", "\\", "\"", ":", "\\", "\"", "FLORIDA", ",", " ",
      "STATE", " ", "OF", "\\", "\"", ",", "\\", "\"", "TaxOnTax", "\\", "\"",
      ":", "\\", "\"", "1", ".", "0", "2", "\\", "\"", ",", "\\", "\"",
      "TaxRate", "\\", "\"", ":", "0", ".", "0", "7", "4", "4", "0", "0", "0",
      "0", "0", "0", "0", "0", ",", "\\", "\"", "TaxTypeCode", "\\", "\"", ":",
      "\\", "\"", "1", "2", "7", "\\", "\"", ",", "\\", "\"", "TaxTypeDesc",
      "\\", "\"", ":", "\\", "\"", "FL", " ", "COMMUNICATION", " ", "SERVICES",
      " ", "TAX", "\\", "\"", "}", ",", "{", "\\", "\"", "CityName", "\\",
      "\"", ":", "\\", "\"", "FERNANDINA", " ", "BEACH", "\\", "\"", ",", "\\",
      "\"", "CountyName", "\\", "\"", ":", "\\", "\"", "NASSAU", "\\", "\"",
      ",", "\\", "\"", "FeeRate", "\\", "\"", ":", "0", ",", "\\", "\"",
      "Juriscode", "\\", "\"", ":", "\\", "\"", "\\", "\"", ",", "\\", "\"",
      "PercentTaxable", "\\", "\"", ":", "0", ".", "6", "4", "9", "0", "0",
      "0", ",", "\\", "\"", "Revenue", "\\", "\"", ":", "\\", "\"", "1", "0",
      "0", ".", "0", "0", "\\", "\"", ",", "\\", "\"", "RevenueBase", "\\",
      "\"", ":", "\\", "\"", "6", "4", ".", "8", "9", "\\", "\"", ",", "\\",
      "\"", "TaxAmount", "\\", "\"", ":", "\\", "\"", "1", "2", ".", "2", "0",
      "\\", "\"", ",", "\\", "\"", "TaxAuthorityID", "\\", "\"", ":", "\\",
      "\"", "1", "6", "\\", "\"", ",", "\\", "\"", "TaxAuthorityName", "\\",
      "\"", ":", "\\", "\"", "FEDERAL", " ", "COMMUNICATIONS", " ",
      "COMMISSION", "\\", "\"", ",", "\\", "\"", "TaxOnTax", "\\", "\"", ":",
      "\\", "\"", "0", ".", "0", "0", "\\", "\"", ",", "\\", "\"", "TaxRate",
      "\\", "\"", ":", "0", ".", "1", "8", "8", "0", "0", "0", "0", "0", "0",
      "0", "0", "0", ",", "\\", "\"", "TaxTypeCode", "\\", "\"", ":", "\\",
      "\"", "0", "3", "5", "\\", "\"", ",", "\\", "\"", "TaxTypeDesc", "\\",
      "\"", ":", "\\", "\"", "FEDERAL", " ", "UNIVERSAL", " ", "SERVICE", " ",
      "FUND", "\\", "\"", "}", ",", "{", "\\", "\"", "CityName", "\\", "\"",
      ":", "\\", "\"", "FERNANDINA", " ", "BEACH", "\\", "\"", ",", "\\", "\"",
      "CountyName", "\\", "\"", ":", "\\", "\"", "NASSAU", "\\", "\"", ",",
      "\\", "\"", "FeeRate", "\\", "\"", ":", "0", ",", "\\", "\"",
      "Juriscode", "\\", "\"", ":", "\\", "\"", "\\", "\"", ",", "\\", "\"",
      "PercentTaxable", "\\", "\"", ":", "1", ".", "0", "0", "0", "0", "0",
      "0", ",", "\\", "\"", "Revenue", "\\", "\"", ":", "\\", "\"", "1", "0",
      "0", ".", "0", "0", "\\", "\"", ",", "\\", "\"", "RevenueBase", "\\",
      "\"", ":", "\\", "\"", "1", "1", "3", ".", "6", "4", "\\", "\"", ",",
      "\\", "\"", "TaxAmount", "\\", "\"", ":", "\\", "\"", "6", ".", "5", "0",
      "\\", "\"", ",", "\\", "\"", "TaxAuthorityID", "\\", "\"", ":", "\\",
      "\"", "4", "5", "4", "2", "\\", "\"", ",", "\\", "\"",
      "TaxAuthorityName", "\\", "\"", ":", "\\", "\"", "FERNANDINA", " ",
      "BEACH", ",", " ", "CITY", " ", "OF", "\\", "\"", ",", "\\", "\"",
      "TaxOnTax", "\\", "\"", ":", "\\", "\"", "0", ".", "7", "8", "\\", "\"",
      ",", "\\", "\"", "TaxRate", "\\", "\"", ":", "0", ".", "0", "5", "7",
      "2", "0", "0", "0", "0", "0", "0", "0", "0", ",", "\\", "\"",
      "TaxTypeCode", "\\", "\"", ":", "\\", "\"", "3", "3", "7", "\\", "\"",
      ",", "\\", "\"", "TaxTypeDesc", "\\", "\"", ":", "\\", "\"", "LOCAL",
      " ", "COMMUNICATIONS", " ", "SVC", ".", " ", "TAX", "\\", "\"", "}", ",",
      "{", "\\", "\"", "CityName", "\\", "\"", ":", "\\", "\"", "FERNANDINA",
      " ", "BEACH", "\\", "\"", ",", "\\", "\"", "CountyName", "\\", "\"", ":",
      "\\", "\"", "NASSAU", "\\", "\"", ",", "\\", "\"", "FeeRate", "\\", "\"",
      ":", "0", ",", "\\", "\"", "Juriscode", "\\", "\"", ":", "\\", "\"",
      "\\", "\"", ",", "\\", "\"", "PercentTaxable", "\\", "\"", ":", "0", ".",
      "6", "4", "9", "0", "0", "0", ",", "\\", "\"", "Revenue", "\\", "\"",
      ":", "\\", "\"", "1", "0", "0", ".", "0", "0", "\\", "\"", ",", "\\",
      "\"", "RevenueBase", "\\", "\"", ":", "\\", "\"", "6", "5", ".", "0",
      "9", "\\", "\"", ",", "\\", "\"", "TaxAmount", "\\", "\"", ":", "\\",
      "\"", "1", ".", "4", "9", "\\", "\"", ",", "\\", "\"", "TaxAuthorityID",
      "\\", "\"", ":", "\\", "\"", "1", "6", "\\", "\"", ",", "\\", "\"",
      "TaxAuthorityName", "\\", "\"", ":", "\\", "\"", "FEDERAL", " ",
      "COMMUNICATIONS", " ", "COMMISSION", "\\", "\"", ",", "\\", "\"",
      "TaxOnTax", "\\", "\"", ":", "\\", "\"", "0", ".", "0", "0", "\\", "\"",
      ",", "\\", "\"", "TaxRate", "\\", "\"", ":", "0", ".", "0", "2", "2",
      "8", "9", "0", "0", "0", "0", "0", "0", "0", ",", "\\", "\"",
      "TaxTypeCode", "\\", "\"", ":", "\\", "\"", "0", "6", "0", "\\", "\"",
      ",", "\\", "\"", "TaxTypeDesc", "\\", "\"", ":", "\\", "\"", "FEDERAL",
      " ", "COST", " ", "RECOVERY", " ", "CHARGE", "\\", "\"", "}", "]", "}",
      "]", ",", "\\", "\"", "HeaderMessage", "\\", "\"", ":", "\\", "\"",
      "Success", "\\", "\"", ",", "\\", "\"", "MasterTransId", "\\", "\"", ":",
      "6", "1", "6", "0", "3", "9", "8", "3", "2", ",", "\\", "\"",
      "ResponseCode", "\\", "\"", ":", "\\", "\"", "9", "9", "9", "9", "\\",
      "\"", ",", "\\", "\"", "STAN", "\\", "\"", ":", "\\", "\"", "\\", "\"",
      ",", "\\", "\"", "Successful", "\\", "\"", ":", "\\", "\"", "Y", "\\",
      "\"", ",", "\\", "\"", "TotalTax", "\\", "\"", ":", "\\", "\"", "2", "8",
      ".", "6", "5", "\\", "\"", ",", "\\", "\"", "TransId", "\\", "\"", ":",
      "6", "1", "6", "0", "3", "9", "8", "3", "2", "}", "\"", "}">>

(***************************************************************************)
(* The client.  Bounds of the model.                                       *)
(***************************************************************************)
\* goroutines that call Send and Cancel
NumThreads == 2

\* SuretaxClient objects
NumClients == 2

\* transports a test may install with SetHttpClient
NumMocks == 1

\* calls of Send and Cancel in a run
MaxCalls == 2

\* calls of SetHttpClient in a run
MaxSets == 2

Threads == 1..NumThreads

Clients == 1..NumClients

\* An HttpClient interface value: nil, a caller's transport, the default
\* &http.Client{} number n of client owner, or that value half written (an
\* interface is two words, and the check at line 101 reads it without the lock
\* while line 112 may be writing it).
Nil == [kind |-> "nil", owner |-> 0, n |-> 0]

Mock(i) == [kind |-> "mock", owner |-> 0, n |-> i]

Default(c, n) == [kind |-> "default", owner |-> c, n |-> n]

Torn(c, n) == [kind |-> "torn", owner |-> c, n |-> n]

Mocks == {Mock(i) : i \in 1..NumMocks}

\* a handle Do can be called on: a nil or half-written one is a nil dereference
Usable(h) == h.kind \in {"mock", "default"}

(***************************************************************************)
(* What the callers pass and what the service answers.                     *)
(***************************************************************************)
sendRequest == [Zero(Request) EXCEPT !.ClientNumber = <<"0", "0", "1">>]

cancelRequest ==
    [Zero(CancelRequest) EXCEPT !.ClientNumber = <<"0", "0", "1">>,
                                !.TransId = <<"6", "1", "6">>]

SendRequests == {sendRequest}

CancelRequests == {cancelRequest}

\* {"d":"{\"ResponseCode\":\"9999\",\"TransId\":616}"}
okBody ==
    <<"{", Q, "d", Q, ":", Q, "{", B, Q, "ResponseCode", B, Q, ":", B, Q,
      "9", "9", "9", "9", B, Q, ",", B, Q, "TransId", B, Q, ":", "6", "1", "6",
      "}", Q, "}">>

\* {"Successful":"Y","TransId":616}
okCancelBody ==
    <<"{", Q, "Successful", Q, ":", Q, "Y", Q, ",", Q, "TransId", Q, ":",
      "6", "1", "6", "}">>

\* {"d":"{\"ResponseCode\":\"9001\",\"TransId\":616}"}
rejectedBody ==
    <<"{", Q, "d", Q, ":", Q, "{", B, Q, "ResponseCode", B, Q, ":", B, Q,
      "9", "0", "0", "1", B, Q, ",", B, Q, "TransId", B, Q, ":", "6", "1", "6",
      "}", Q, "}">>

\* {"Successful":"N","TransId":616}
failedCancelBody ==
    <<"{", Q, "Successful", Q, ":", Q, "N", Q, ",", Q, "TransId", Q, ":",
      "6", "1", "6", "}">>

\* <html>
notJsonBody == <<LT, "html", ">">>

\* {"d":"{"}
badPayloadBody == <<"{", Q, "d", Q, ":", Q, "{", Q, "}">>

Bodies ==
    {okBody, rejectedBody, okCancelBody, failedCancelBody, notJsonBody,
     badPayloadBody}

StatusCodes == {200, 201, 500}

\* what Do returns: an error, or a response
DoOutcomes ==
    {[err |-> Err("transport", 0), resp |-> NoResponse]}
        \cup {[err |-> NoErr, resp |-> HttpResponse(200, b, TRUE)] : b \in Bodies}
        \cup {[err |-> NoErr, resp |-> HttpResponse(200, okBody, FALSE)]}
        \cup {[err |-> NoErr, resp |-> HttpResponse(s, okBody, TRUE)] :
                 s \in StatusCodes \ {200}}

\* the first client's Url is right, and the second's does not parse as a URL
GoodUrl == "https://suretax/PostRequest"

GoodCancelUrl == "https://suretax/CancelPostRequest"

BadUrl == ":bad"

(***************************************************************************)
(* State.                                                                  *)
(***************************************************************************)
VARIABLES
    httpClientOverride,  \* the package's override (line 17)
    Url,                 \* Url[c], CancelUrl[c], httpClient[c], mu[c]: the
    CancelUrl,           \*   fields of client c (lines 24-33); mu[c] is the
    httpClient,          \*   thread that holds the mutex, or 0
    mu,
    th,                  \* th[t]: the call thread t is in
    ncalls,              \* calls started
    nsets,               \* SetHttpClient calls made
    constructed,         \* constructed[c]: default handles made for client c
    codec                \* the value under the codec (SpecCodec)

vars ==
    <<httpClientOverride, Url, CancelUrl, httpClient, mu, th, ncalls, nsets,
      constructed, codec>>

\* A call: where it is (pc), the operation and its receiver and argument, the
\* locals cli, r and resp, and what it returned (res, err).  The other fields
\* record what happened: seen and cached are the override and the receiver's
\* handle when line 97 ran, raced says that SetHttpClient ran between line 97
\* and line 98 (the three are kept until Send goes on), dos and parses count the calls of Do and of parseResponse or
\* parseCancelResponse, bodyRead and closed say that the body was read to its
\* end and closed.
Idle ==
    [pc |-> "idle", op |-> "none", c |-> 0, req |-> <<>>, cli |-> Nil,
     r |-> NoRequest, resp |-> NoResponse, res |-> NilResult, err |-> NoErr,
     seen |-> Nil, cached |-> Nil, raced |-> FALSE, dos |-> 0, parses |-> 0,
     bodyRead |-> FALSE, closed |-> FALSE]

\* a nil dereference is a panic, and a panic ends the process
Crashed == \E t \in Threads : th[t].pc = "panic"

\* the fields of the clients, and no call yet
InitClient ==
    /\ httpClientOverride = Nil
    /\ Url = [c \in Clients |-> IF c = 1 THEN GoodUrl ELSE BadUrl]
    /\ CancelUrl = [c \in Clients |-> GoodCancelUrl]
    /\ httpClient = [c \in Clients |-> Nil]
    /\ mu = [c \in Clients |-> 0]
    /\ th = [t \in Threads |-> Idle]
    /\ ncalls = 0
    /\ nsets = 0
    /\ constructed = [c \in Clients |-> 0]

\* A value under the codec: what it is (kind), how far it has got (stage), the
\* value (val), the request built from it (r), the body served from it or given
\* (body), the value read back from r's body (back), what parsing body gave (out).
Codec(kind, val, body) ==
    [kind |-> kind, stage |-> "in", val |-> val, r |-> NoRequest, body |-> body,
     back |-> [ok |-> FALSE, v |-> <<>>],
     out |-> [res |-> NilResult, err |-> NoErr]]

NoCodec == [Codec("none", <<>>, <<>>) EXCEPT !.stage = "none"]

Init == InitClient /\ codec = NoCodec

(***************************************************************************)
(* SetHttpClient (lines 20-22).                                            *)
(***************************************************************************)
SetHttpClient(client) ==
    /\ ~Crashed
    /\ nsets < MaxSets
    /\ nsets' = nsets + 1
    /\ httpClientOverride' = client
    /\ th' = [t \in Threads |->
                IF th[t].pc = "returnOverride" THEN [th[t] EXCEPT !.raced = TRUE]
                ELSE th[t]]
    /\ UNCHANGED <<Url, CancelUrl, httpClient, mu, ncalls, constructed, codec>>

(***************************************************************************)
(* Send and Cancel are entered (lines 35-37, 65-67).                       *)
(***************************************************************************)
\* lines 35-37: Send is entered, and calls getClient
Send(t, c, req) ==
    /\ ~Crashed
    /\ th[t].pc = "idle"
    /\ ncalls < MaxCalls
    /\ ncalls' = ncalls + 1
    /\ th' = [th EXCEPT ![t] = [Idle EXCEPT !.pc = "getClient", !.op = "Send",
                                            !.c = c, !.req = req]]
    /\ UNCHANGED <<httpClientOverride, Url, CancelUrl, httpClient, mu, nsets,
                   constructed, codec>>

\* lines 65-67: Cancel is entered, and calls getClient
Cancel(t, c, req) ==
    /\ ~Crashed
    /\ th[t].pc = "idle"
    /\ ncalls < MaxCalls
    /\ ncalls' = ncalls + 1
    /\ th' = [th EXCEPT ![t] = [Idle EXCEPT !.pc = "getClient", !.op = "Cancel",
                                            !.c = c, !.req = req]]
    /\ UNCHANGED <<httpClientOverride, Url, CancelUrl, httpClient, mu, nsets,
                   constructed, codec>>

(***************************************************************************)
(* getClient (lines 95-116).                                               *)
(***************************************************************************)
\* line 97: httpClientOverride != nil
OverrideSet(override) == override # Nil

\* line 97: the test of the override
getClient_override(t) ==
    /\ ~Crashed
    /\ th[t].pc = "getClient"
    /\ th' = [th EXCEPT ![t] =
                [@ EXCEPT !.pc = IF OverrideSet(httpClientOverride)
                                 THEN "returnOverride" ELSE "cached",
                          !.seen = httpClientOverride,
                          !.cached = httpClient[th[t].c]]]
    /\ UNCHANGED <<httpClientOverride, Url, CancelUrl, httpClient, mu, ncalls,
                   nsets, constructed, codec>>

\* line 98: return httpClientOverride.  The variable is read without any
\* synchronisation: the compiled code may read it again or reuse what line 97
\* read, so either value may be returned.
getClient_returnOverride(t) ==
    /\ ~Crashed
    /\ th[t].pc = "returnOverride"
    /\ \E v \in {httpClientOverride, th[t].seen} :
          th' = [th EXCEPT ![t] = [@ EXCEPT !.pc = "build", !.cli = v]]
    /\ UNCHANGED <<httpClientOverride, Url, CancelUrl, httpClient, mu, ncalls,
                   nsets, constructed, codec>>

\* lines 101-103: the check without the lock.  A half-written handle is read
\* as non-nil (and returned) or as nil.
getClient_cached(t) ==
    /\ ~Crashed
    /\ th[t].pc = "cached"
    /\ LET h == httpClient[th[t].c] IN
       \/ /\ h.kind \in {"default", "torn"}
          /\ th' = [th EXCEPT ![t] = [@ EXCEPT !.pc = "build", !.cli = h]]
       \/ /\ h.kind \in {"nil", "torn"}
          /\ th' = [th EXCEPT ![t] = [@ EXCEPT !.pc = "lock"]]
    /\ UNCHANGED <<httpClientOverride, Url, CancelUrl, httpClient, mu, ncalls,
                   nsets, constructed, codec>>

\* line 105: c.mu.Lock()
getClient_lock(t) ==
    /\ ~Crashed
    /\ th[t].pc = "lock"
    /\ mu[th[t].c] = 0
    /\ mu' = [mu EXCEPT ![th[t].c] = t]
    /\ th' = [th EXCEPT ![t] = [@ EXCEPT !.pc = "locked"]]
    /\ UNCHANGED <<httpClientOverride, Url, CancelUrl, httpClient, ncalls, nsets,
                   constructed, codec>>

\* the check under the lock turned round: c.httpClient != nil
MustConstructInverted(h) == h # Nil

\* no check under the lock: the handle is made by whoever has the lock
MustConstructAlways(h) == TRUE

\* line 108: c.httpClient == nil, under the lock
MustConstruct(h) == h = Nil

\* lines 108-112: the check under the lock, and the first word of the store
getClient_construct(t) ==
    /\ ~Crashed
    /\ th[t].pc = "locked"
    /\ LET c == th[t].c IN
       IF MustConstruct(httpClient[c])
       THEN /\ httpClient' = [httpClient EXCEPT ![c] = Torn(c, constructed[c] + 1)]
            /\ constructed' = [constructed EXCEPT ![c] = @ + 1]
            /\ th' = [th EXCEPT ![t] = [@ EXCEPT !.pc = "store"]]
       ELSE /\ th' = [th EXCEPT ![t] = [@ EXCEPT !.pc = "unlock"]]
            /\ UNCHANGED <<httpClient, constructed>>
    /\ UNCHANGED <<httpClientOverride, Url, CancelUrl, mu, ncalls, nsets, codec>>

\* line 112: the second word of the store
getClient_store(t) ==
    /\ ~Crashed
    /\ th[t].pc = "store"
    /\ LET c == th[t].c IN
       httpClient' = [httpClient EXCEPT ![c] = Default(c, httpClient[c].n)]
    /\ th' = [th EXCEPT ![t] = [@ EXCEPT !.pc = "unlock"]]
    /\ UNCHANGED <<httpClientOverride, Url, CancelUrl, mu, ncalls, nsets,
                   constructed, codec>>

\* return c.httpClient without the Unlock: the caller goes on with the mutex
getClient_returnLocked(t) ==
    /\ ~Crashed
    /\ th[t].pc = "unlock"
    /\ th' = [th EXCEPT ![t] = [@ EXCEPT !.pc = "build",
                                         !.cli = httpClient[th[t].c]]]
    /\ UNCHANGED <<httpClientOverride, Url, CancelUrl, httpClient, mu, ncalls,
                   nsets, constructed, codec>>

\* lines 115 and 106: return c.httpClient, and the deferred c.mu.Unlock()
getClient_unlock(t) ==
    /\ ~Crashed
    /\ th[t].pc = "unlock"
    /\ mu' = [mu EXCEPT ![th[t].c] = 0]
    /\ th' = [th EXCEPT ![t] = [@ EXCEPT !.pc = "build",
                                         !.cli = httpClient[th[t].c]]]
    /\ UNCHANGED <<httpClientOverride, Url, CancelUrl, httpClient, ncalls, nsets,
                   constructed, codec>>

(***************************************************************************)
(* Send (lines 35-63) and Cancel (lines 65-93) after getClient.            *)
(***************************************************************************)
\* the failure to build is kept, and the call goes on to Do all the same
buildThenDo(t) ==
    /\ ~Crashed
    /\ th[t].pc = "build"
    /\ \E b \in {IF th[t].op = "Send"
                 THEN buildRequest(Url[th[t].c], th[t].req)
                 ELSE buildCancelRequest(CancelUrl[th[t].c], th[t].req)} :
          th' = [th EXCEPT ![t] = [@ EXCEPT !.pc = "do", !.r = b.r, !.err = b.err,
                                            !.seen = Nil, !.cached = Nil,
                                            !.raced = FALSE]]
    /\ UNCHANGED <<httpClientOverride, Url, CancelUrl, httpClient, mu, ncalls,
                   nsets, constructed, codec>>

\* lines 39-42, 69-72: getClient has returned (what is recorded of it is
\* dropped), the request is built, and a failure is returned
build(t) ==
    /\ ~Crashed
    /\ th[t].pc = "build"
    /\ \E b \in {IF th[t].op = "Send"
                 THEN buildRequest(Url[th[t].c], th[t].req)
                 ELSE buildCancelRequest(CancelUrl[th[t].c], th[t].req)} :
          IF ~b.ok
          THEN th' = [th EXCEPT ![t] = [@ EXCEPT !.pc = "done", !.res = NilResult,
                                                 !.err = b.err, !.seen = Nil,
                                                 !.cached = Nil, !.raced = FALSE]]
          ELSE th' = [th EXCEPT ![t] = [@ EXCEPT !.pc = "do", !.r = b.r,
                                                 !.seen = Nil, !.cached = Nil,
                                                 !.raced = FALSE]]
    /\ UNCHANGED <<httpClientOverride, Url, CancelUrl, httpClient, mu, ncalls,
                   nsets, constructed, codec>>

\* lines 44, 74: cli.Do(r) is called; on a nil handle the call panics
do(t) ==
    /\ ~Crashed
    /\ th[t].pc = "do"
    /\ IF Usable(th[t].cli)
       THEN th' = [th EXCEPT ![t] = [@ EXCEPT !.pc = "inDo", !.dos = @ + 1]]
       ELSE th' = [th EXCEPT ![t] = [@ EXCEPT !.pc = "panic"]]
    /\ UNCHANGED <<httpClientOverride, Url, CancelUrl, httpClient, mu, ncalls,
                   nsets, constructed, codec>>

\* Do's error sends the call back to Do instead of to the caller
doReturnsRetrying(t) ==
    /\ ~Crashed
    /\ th[t].pc = "inDo"
    /\ \E out \in DoOutcomes :
          IF out.err # NoErr
          THEN th' = [th EXCEPT ![t] = [@ EXCEPT !.pc = "do"]]
          ELSE th' = [th EXCEPT ![t] = [@ EXCEPT !.pc = "status",
                                                 !.resp = out.resp]]
    /\ UNCHANGED <<httpClientOverride, Url, CancelUrl, httpClient, mu, ncalls,
                   nsets, constructed, codec>>

\* lines 44-47, 74-77: Do returns, and its error is returned
doReturns(t) ==
    /\ ~Crashed
    /\ th[t].pc = "inDo"
    /\ \E out \in DoOutcomes :
          IF out.err # NoErr
          THEN th' = [th EXCEPT ![t] = [@ EXCEPT !.pc = "done", !.res = NilResult,
                                                 !.err = out.err]]
          ELSE th' = [th EXCEPT ![t] = [@ EXCEPT !.pc = "status",
                                                 !.resp = out.resp]]
    /\ UNCHANGED <<httpClientOverride, Url, CancelUrl, httpClient, mu, ncalls,
                   nsets, constructed, codec>>

\* only the statuses outside 200..299 are rejected
StatusRejectedOutside2xx(code) == code \notin 200..299

\* lines 53, 83: resp.StatusCode != http.StatusOK
StatusRejected(code) == code # StatusOK

\* another status than 200 ends the call without an error value
statusWithoutError(t) ==
    /\ ~Crashed
    /\ th[t].pc = "status"
    /\ IF StatusRejected(th[t].resp.StatusCode)
       THEN th' = [th EXCEPT ![t] = [@ EXCEPT !.pc = "done", !.res = NilResult,
                                              !.err = NoErr, !.closed = TRUE]]
       ELSE th' = [th EXCEPT ![t] = [@ EXCEPT !.pc = "parse"]]
    /\ UNCHANGED <<httpClientOverride, Url, CancelUrl, httpClient, mu, ncalls,
                   nsets, constructed, codec>>

\* lines 49-55, 79-85: the status is tested; another status than 200 is an
\* error that carries the status, and the deferred Close runs as Send returns
status(t) ==
    /\ ~Crashed
    /\ th[t].pc = "status"
    /\ IF StatusRejected(th[t].resp.StatusCode)
       THEN th' = [th EXCEPT ![t] =
                     [@ EXCEPT !.pc = "done", !.res = NilResult,
                               !.err = Err("status", th[t].resp.StatusCode),
                               !.closed = TRUE]]
       ELSE th' = [th EXCEPT ![t] = [@ EXCEPT !.pc = "parse"]]
    /\ UNCHANGED <<httpClientOverride, Url, CancelUrl, httpClient, mu, ncalls,
                   nsets, constructed, codec>>

\* lines 57-62, 87-92: the body is parsed, a failure is returned as (nil, err)
\* and a value as (res, nil); the deferred Close runs as Send returns
parse(t) ==
    /\ ~Crashed
    /\ th[t].pc = "parse"
    /\ \E p \in {IF th[t].op = "Send" THEN parseResponse(th[t].resp)
                 ELSE parseCancelResponse(th[t].resp)} :
          th' = [th EXCEPT ![t] =
                    [@ EXCEPT !.pc = "done",
                              !.res = IF p.err # NoErr THEN NilResult ELSE p.res,
                              !.err = p.err,
                              !.parses = @ + 1,
                              !.bodyRead = th[t].resp.readOk,
                              !.closed = TRUE]]
    /\ UNCHANGED <<httpClientOverride, Url, CancelUrl, httpClient, mu, ncalls,
                   nsets, constructed, codec>>

\* as a call returns an error, its client drops the handle it has cached
returnDroppingHandle(t) ==
    /\ ~Crashed
    /\ th[t].pc = "done"
    /\ th' = [th EXCEPT ![t] = Idle]
    /\ httpClient' = [httpClient EXCEPT ![th[t].c] =
                         IF th[t].err # NoErr /\ mu[th[t].c] = 0 THEN Nil ELSE @]
    /\ UNCHANGED <<httpClientOverride, Url, CancelUrl, mu, ncalls, nsets,
                   constructed, codec>>

\* the caller has the results, and the goroutine is free for another call
return(t) ==
    /\ ~Crashed
    /\ th[t].pc = "done"
    /\ th' = [th EXCEPT ![t] = Idle]
    /\ UNCHANGED <<httpClientOverride, Url, CancelUrl, httpClient, mu, ncalls,
                   nsets, constructed, codec>>

Next ==
    \/ \E client \in Mocks \cup {Nil} : SetHttpClient(client)
    \/ \E t \in Threads, c \in Clients, req \in SendRequests : Send(t, c, req)
    \/ \E t \in Threads, c \in Clients, req \in CancelRequests : Cancel(t, c, req)
    \/ \E t \in Threads : getClient_override(t)
    \/ \E t \in Threads : getClient_returnOverride(t)
    \/ \E t \in Threads : getClient_cached(t)
    \/ \E t \in Threads : getClient_lock(t)
    \/ \E t \in Threads : getClient_construct(t)
    \/ \E t \in Threads : getClient_store(t)
    \/ \E t \in Threads : getClient_unlock(t)
    \/ \E t \in Threads : build(t)
    \/ \E t \in Threads : do(t)
    \/ \E t \in Threads : doReturns(t)
    \/ \E t \in Threads : status(t)
    \/ \E t \in Threads : parse(t)
    \/ \E t \in Threads : return(t)

Spec == Init /\ [][Next]_vars

(***************************************************************************)
(* Properties of Send, Cancel and getClient.                               *)
(***************************************************************************)
\* where a call is when getClient has just returned
PastGetClient == {"build"}

\* C1: for Send and for Cancel, a response whose status is anything but 200
\* ends the call with the error that carries that status and with no result,
\* and parseResponse or parseCancelResponse is not entered: such a response is
\* never at the parse step, and the call that got it has parsed and read nothing.
C1_StatusErrorWithoutParse ==
    \A t \in Threads :
        (th[t].pc \in {"parse", "done"} /\ th[t].resp # NoResponse
            /\ th[t].resp.StatusCode # 200)
        => /\ th[t].pc = "done"
           /\ th[t].err = Err("status", th[t].resp.StatusCode)
           /\ th[t].res.isNil
           /\ th[t].parses = 0
           /\ ~th[t].bodyRead

\* a Send and a Cancel have both returned the status error, for 201 and for 500
C1_Witness ==
    \E t, u \in Threads :
        /\ th[t].op = "Send" /\ th[t].pc = "done"
        /\ th[t].resp.StatusCode = 201 /\ th[t].err = Err("status", 201)
        /\ th[u].op = "Cancel" /\ th[u].pc = "done"
        /\ th[u].resp.StatusCode = 500 /\ th[u].err = Err("status", 500)

\* C2: a call of Send or Cancel that returns, returns either a result and the
\* nil error or the nil result and an error, on every path: a failure to build,
\* a failure of Do, another status than 200, a failure to read the body, a
\* failure to decode the wrapper or the payload.
C2_ResultXorError ==
    \A t \in Threads :
        th[t].pc = "done" => (th[t].res.isNil <=> th[t].err # NoErr)

\* one call has returned a decoded response, another has failed reading the body
C2_Witness ==
    \E t, u \in Threads :
        /\ th[t].pc = "done" /\ ~th[t].res.isNil /\ th[t].err = NoErr
        /\ th[t].res.v.TransId = 616
        /\ th[u].pc = "done" /\ th[u].res.isNil /\ th[u].err.kind = "read"

C4_DefaultNotNil ==
    \A t \in Threads :
        (th[t].pc \in PastGetClient /\ th[t].seen = Nil
            /\ th[t].cached.kind # "default")
        => th[t].cli # Nil

\* two calls have raced for the first use of one client, and both have a handle
C4_Witness ==
    \E t, u \in Threads :
        /\ t # u /\ th[t].c = th[u].c
        /\ th[t].pc \in PastGetClient /\ th[u].pc \in PastGetClient
        /\ th[t].seen = Nil /\ th[u].seen = Nil
        /\ th[t].cached = Nil /\ th[u].cached.kind # "default"
        /\ th[t].cli # Nil /\ th[u].cli # Nil
        /\ constructed[th[t].c] = 1

\* C5: a call of Send or Cancel calls Do at most once, and when Do fails the
\* call returns that failure at once: it has no response, has checked no
\* status, has parsed nothing, and is back with the caller.
C5_DoOnceAndFailFast ==
    \A t \in Threads :
        /\ th[t].dos <= 1
        /\ th[t].err.kind = "transport"
               => /\ th[t].pc = "done"
                  /\ th[t].dos = 1
                  /\ th[t].res.isNil
                  /\ th[t].resp = NoResponse
                  /\ th[t].parses = 0
                  /\ ~th[t].closed

\* Do has failed for a Send and for a Cancel
C5_Witness ==
    \E t, u \in Threads :
        /\ th[t].op = "Send" /\ th[u].op = "Cancel"
        /\ th[t].pc = "done" /\ th[u].pc = "done"
        /\ th[t].err.kind = "transport" /\ th[u].err.kind = "transport"
        /\ th[t].dos = 1 /\ th[u].dos = 1

(***************************************************************************)
(* The codec on its own: requests are built and read back as the service   *)
(* reads them, responses are written as the service writes them and        *)
(* parsed, and given bodies are parsed.                                    *)
(***************************************************************************)
\* the longest string drawn for a field
MaxStrLen == 2

\* the longest list drawn for ItemList, ItemMessages, GroupList and TaxList
\* beside the lists of the tests
MaxListLen == 2

\* a letter, a digit, a space, the characters Marshal escapes, and a byte that
\* is not UTF-8
Alphabet == {"a", "7", " ", Q, B, NL, LT, X}

\* the strings up to a length (two letters in a row are one word: they are left out)
Strings(n) ==
    {s \in UNION {[1..k -> Alphabet] : k \in 0..n} :
        \A i \in 1..(Len(s) - 1) : ~(s[i] = "a" /\ s[i + 1] = "a")}

CodecStrings == Strings(MaxStrLen)

FewStrings == {<<>>, <<"a">>, <<Q>>, <<X>>, <<B, "n">>}

\* the lists up to a length over the elements es, and the nil list
Lists(es, n) ==
    {NilSlice} \cup {Slice(l) : l \in UNION {[1..k -> es] : k \in 0..n}}

ExemptionLists == Lists({<<>>, <<"a">>, <<X>>}, MaxListLen)

CodecItems ==
    {[Zero(RequestItem) EXCEPT !.Units = u, !.TaxExemptionCodeList = l,
                               !.Address = [@ EXCEPT !.City = u]] :
        u \in {<<>>, <<"4">>}, l \in ExemptionLists}
        \cup {[testItem EXCEPT !.UDF = u] : u \in FewStrings}

CodecRequests ==
    {getTestRequest}
        \cup {[Zero(Request) EXCEPT !.ClientNumber = s] : s \in CodecStrings}
        \cup {[getTestRequest EXCEPT !.ItemList = Slice(<<>>)]}
        \cup {[getTestRequest EXCEPT !.STAN = s, !.ItemList = Slice(<<i>>)] :
                 s \in {<<>>, <<LT>>}, i \in CodecItems}
        \cup {[Zero(Request) EXCEPT !.ItemList = Slice(<<i, testItem>>)] :
                 i \in CodecItems}

CodecCancelRequests ==
    {[Zero(CancelRequest) EXCEPT !.ClientNumber = <<"0", "0", "1">>, !.TransId = s] :
        s \in CodecStrings}

\* 0, 0.0744, 1, -2.5, 100, and NaN
CodecFloats == {Float(0, 0), Float(744, 4), Float(1, 0), Float(-25, 1), Float(100, 0), NaN}

CodecTaxes ==
    {[Zero(Tax) EXCEPT !.TaxRate = f, !.CityName = s] :
        f \in CodecFloats, s \in {<<>>, <<"a">>, <<X>>}}

tax1 == [Zero(Tax) EXCEPT !.TaxTypeCode = <<"1", "0", "6">>, !.TaxRate = Float(744, 4)]

tax2 == [Zero(Tax) EXCEPT !.TaxTypeCode = <<"0", "3", "5">>, !.PercentTaxable = Float(1, 0)]

TaxLists ==
    {NilSlice, Slice(<<>>), Slice(<<tax1, tax2>>), Slice(<<tax2, tax1>>),
     Slice(<<tax1, tax2, tax2, tax1>>)}
        \cup {Slice(<<x>>) : x \in CodecTaxes}

CodecGroups == {[Zero(Group) EXCEPT !.StateCode = <<"a">>, !.TaxList = l] : l \in TaxLists}

group1 == [Zero(Group) EXCEPT !.LineNumber = <<"1">>, !.TaxList = Slice(<<tax1>>)]

GroupLists ==
    {NilSlice, Slice(<<>>)}
        \cup {Slice(<<g>>) : g \in CodecGroups}
        \cup {Slice(<<g, group1>>) : g \in CodecGroups}

message1 == [Zero(ItemMessage) EXCEPT !.LineNumber = <<"1">>, !.Message = <<"a", Q>>]

message2 == [Zero(ItemMessage) EXCEPT !.LineNumber = <<"2">>]

MessageLists == Lists({message1, message2}, MaxListLen)

TransIds == {0, 616039832, -7}

CodecResponses ==
    {[Zero(Response) EXCEPT !.ResponseCode = <<"9", "9", "9", "9">>, !.GroupList = gl] :
        gl \in GroupLists}
        \cup {[Zero(Response) EXCEPT !.HeaderMessage = s, !.TransId = n,
                                     !.ItemMessages = ml] :
                 s \in FewStrings, n \in TransIds, ml \in MessageLists}

CodecCancelResponses ==
    {[Zero(CancelResponse) EXCEPT !.Successful = s, !.TransId = n] :
        s \in FewStrings, n \in TransIds}

\* {}
emptyObjectBody == <<"{", "}">>

\* {"d":""}
emptyPayloadBody == <<"{", Q, "d", Q, ":", Q, Q, "}">>

\* {"d":5}
numberPayloadBody == <<"{", Q, "d", Q, ":", "5", "}">>

\* {"d":"{\"TransId\":\"616\"}"}
stringTransIdBody ==
    <<"{", Q, "d", Q, ":", Q, "{", B, Q, "TransId", B, Q, ":", B, Q, "6", "1", "6",
      B, Q, "}", Q, "}">>

\* {"d":null}
nullPayloadBody == <<"{", Q, "d", Q, ":", "null", "}">>

\* {"e":"{}"}
otherKeyBody == <<"{", Q, "e", Q, ":", Q, "{", "}", Q, "}">>

\* {"d":"{}"}x
trailingBody == <<"{", Q, "d", Q, ":", Q, "{", "}", Q, "}", "x">>

CodecBodies ==
    Bodies \cup {getTestResponse, <<>>, emptyObjectBody, emptyPayloadBody,
                 numberPayloadBody, stringTransIdBody, trailingBody,
                 nullPayloadBody, otherKeyBody}

CodecInputs ==
    {Codec("Request", v, <<>>) : v \in CodecRequests}
        \cup {Codec("CancelRequest", v, <<>>) : v \in CodecCancelRequests}
        \cup {Codec("Response", v, <<>>) : v \in CodecResponses}
        \cup {Codec("CancelResponse", v, <<>>) : v \in CodecCancelResponses}
        \cup {Codec("Body", <<>>, b) : b \in CodecBodies}
        \cup {Codec("CancelBody", <<>>, b) : b \in CodecBodies}

InitCodec == InitClient /\ codec \in CodecInputs

\* the service unwraps the string of the wrapper w and reads it as a T
readUnwrapped(w, T) ==
    IF ~w.ok THEN [ok |-> FALSE, v |-> Zero(T)]
    ELSE Unmarshal(w.v.Request, T, Zero(T))

\* the service reads a body in the format Send writes: a wrapper W around a T
readRequest(body, W, T) == readUnwrapped(Unmarshal(body, W, Zero(W)), T)

\* the service wraps the bytes of a Response as the string d
serveWrapped(bytes) ==
    IF ~bytes.ok THEN bytes ELSE Marshal([D |-> bytes.text], ResponseWrapper)

\* the body the service writes for a Response
serveResponse(res) == serveWrapped(Marshal(res, Response))

\* the body the service writes for a CancelResponse
serveCancelResponse(res) == Marshal(res, CancelResponse)

\* buildRequest or buildCancelRequest on the first client, as Test_buildRequest
\* calls it
CodecBuild ==
    /\ codec.stage = "in"
    /\ codec.kind \in {"Request", "CancelRequest"}
    /\ \E b \in {IF codec.kind = "Request" THEN buildRequest(Url[1], codec.val)
                 ELSE buildCancelRequest(CancelUrl[1], codec.val)} :
          codec' = [codec EXCEPT !.stage = IF b.ok THEN "built" ELSE "failed",
                                 !.r = b.r]
    /\ UNCHANGED <<httpClientOverride, Url, CancelUrl, httpClient, mu, th, ncalls,
                   nsets, constructed>>

\* the body of the request is taken (requestBodyToString) and read back
CodecRead ==
    /\ codec.stage = "built"
    /\ codec' = [codec EXCEPT
                    !.stage = "back",
                    !.back = IF codec.kind = "Request"
                             THEN readRequest(codec.r.Body, requestWrapper, Request)
                             ELSE readRequest(codec.r.Body, cancelRequestWrapper,
                                              CancelRequest)]
    /\ UNCHANGED <<httpClientOverride, Url, CancelUrl, httpClient, mu, th, ncalls,
                   nsets, constructed>>

\* the service writes the body of a response (a value with a NaN has no body)
CodecServe ==
    /\ codec.stage = "in"
    /\ codec.kind \in {"Response", "CancelResponse"}
    /\ \E b \in {IF codec.kind = "Response" THEN serveResponse(codec.val)
                 ELSE serveCancelResponse(codec.val)} :
          codec' = [codec EXCEPT !.stage = IF b.ok THEN "served" ELSE "failed",
                                 !.body = b.text]
    /\ UNCHANGED <<httpClientOverride, Url, CancelUrl, httpClient, mu, th, ncalls,
                   nsets, constructed>>

\* parseResponse or parseCancelResponse on a response with that body, as
\* Test_parseResponse calls it
CodecParse ==
    /\ \/ codec.stage = "served"
       \/ codec.stage = "in" /\ codec.kind \in {"Body", "CancelBody"}
    /\ codec' = [codec EXCEPT
                    !.stage = "parsed",
                    !.out = IF codec.kind \in {"Response", "Body"}
                            THEN parseResponse(HttpResponse(200, codec.body, TRUE))
                            ELSE parseCancelResponse(HttpResponse(200, codec.body,
                                                                  TRUE))]
    /\ UNCHANGED <<httpClientOverride, Url, CancelUrl, httpClient, mu, th, ncalls,
                   nsets, constructed>>

NextCodec == CodecBuild \/ CodecRead \/ CodecServe \/ CodecParse

SpecCodec == InitCodec /\ [][NextCodec]_vars

(***************************************************************************)
(* Properties of the bodies.                                               *)
(***************************************************************************)
\* a value whose strings are valid UTF-8 and whose numbers are finite
RECURSIVE WellFormed(_, _)
WellFormed(v, T) ==
    CASE T.t = "string" -> \A i \in DOMAIN v : v[i] # X
      [] T.t = "int" -> TRUE
      [] T.t = "float64" -> ~v.nan
      [] T.t = "slice" -> \A i \in DOMAIN v.elems : WellFormed(v.elems[i], T.elem[1])
      [] T.t = "struct" ->
            \A i \in DOMAIN T.fields : WellFormed(v[T.fields[i].name], T.fields[i].type)

\* the text is an object with the one member key, whose value is a string
IsEnvelope(txt, key) ==
    LET p == Parse(txt) IN
    /\ p.ok
    /\ p.tree.k = "object"
    /\ Len(p.tree.items) = 1
    /\ p.tree.items[1].key = <<key>>
    /\ p.tree.items[1].val.k = "string"

\* the string in the envelope
Enveloped(txt) == Parse(txt).tree.items[1].val.s

\* the text is an object with the keys of the fields of T, in their order
HasFieldsOf(txt, T) ==
    LET p == Parse(txt) IN
    /\ p.ok
    /\ p.tree.k = "object"
    /\ Len(p.tree.items) = Len(T.fields)
    /\ \A i \in DOMAIN T.fields : p.tree.items[i].key = <<T.fields[i].key>>

\* C6: for every Request, buildRequest succeeds and gives a POST to the client's
\* Url with the header Content-Type: application/json, whose body is an object
\* with the single member "request", a string (not an object) that holds the
\* request as JSON with the fields of Request in their order; for the request of
\* Test_buildRequest the body is the expected one, and read back it has
\* ItemList[0].Units = "4".
C6_RequestEnvelope ==
    codec.kind = "Request"
    => /\ codec.stage # "failed"
       /\ codec.stage \in {"built", "back"}
            => /\ codec.r.Method = "POST"
               /\ codec.r.URL = Url[1]
               /\ codec.r.Header = <<<<"Content-Type", "application/json">>>>
               /\ IsEnvelope(codec.r.Body, "request")
               /\ HasFieldsOf(Enveloped(codec.r.Body), Request)
               /\ codec.val = getTestRequest => codec.r.Body = expectedBody
       /\ (codec.stage = "back" /\ codec.val = getTestRequest)
            => /\ codec.back.ok
               /\ codec.back.v.ItemList.elems[1].Units = <<"4">>

\* the request of the test has been built and read back
C6_Witness ==
    /\ codec.kind = "Request"
    /\ codec.stage = "back"
    /\ codec.val = getTestRequest
    /\ codec.r.Body = expectedBody
    /\ codec.back.v.ItemList.elems[1].Units = <<"4">>

\* C7: Cancel's request is a POST to CancelUrl whose body is an object with the
\* single member "requestCancel", a string that holds the CancelRequest as
\* JSON; and on status 200 the body of the response is decoded as a
\* CancelResponse as it stands: a member "d" is not unwrapped.
C7_CancelAsymmetry ==
    \A t \in Threads :
        th[t].op = "Cancel"
        => /\ th[t].pc = "do"
                => /\ th[t].r.Method = "POST"
                   /\ th[t].r.URL = CancelUrl[th[t].c]
                   /\ IsEnvelope(th[t].r.Body, "requestCancel")
                   /\ HasFieldsOf(Enveloped(th[t].r.Body), CancelRequest)
                   /\ Unmarshal(Enveloped(th[t].r.Body), CancelRequest,
                                Zero(CancelRequest)).v = th[t].req
           /\ (th[t].pc = "done" /\ th[t].resp.StatusCode = 200 /\ th[t].resp.readOk)
                => /\ th[t].resp.Body = okCancelBody
                        => /\ th[t].err = NoErr
                           /\ th[t].res.v.Successful = <<"Y">>
                           /\ th[t].res.v.TransId = 616
                   /\ th[t].resp.Body \in {okBody, badPayloadBody}
                        => /\ th[t].err = NoErr
                           /\ th[t].res.v = Zero(CancelResponse)
                   /\ th[t].resp.Body = notJsonBody
                        => th[t].err = Err("payload", 0)

\* one Cancel has decoded a plain body, another a body with a member "d"
C7_Witness ==
    \E t, u \in Threads :
        /\ th[t].op = "Cancel" /\ th[u].op = "Cancel"
        /\ th[t].pc = "done" /\ th[u].pc = "done"
        /\ th[t].resp.StatusCode = 200 /\ th[u].resp.StatusCode = 200
        /\ th[t].resp.Body = okCancelBody /\ th[t].res.v.Successful = <<"Y">>
        /\ th[u].resp.Body = okBody /\ ~th[u].res.isNil
        /\ th[u].res.v.TransId = 0

\* C8: when Send has a response with status 200 and has read its body, a body
\* that is no JSON for the wrapper gives the wrapper's error, a body whose
\* wrapper decodes but whose string d is no JSON for a Response gives the
\* payload's error, and neither gives the error of Do or of the status.
C8_TwoDecodeErrors ==
    \A t \in Threads :
        (th[t].op = "Send" /\ th[t].pc = "done" /\ th[t].resp.StatusCode = 200
            /\ th[t].resp.readOk)
        => LET w == Unmarshal(th[t].resp.Body, ResponseWrapper, Zero(ResponseWrapper))
           IN  /\ ~w.ok => th[t].err = Err("wrapper", 0)
               /\ (w.ok /\ ~Unmarshal(w.v.D, Response, Zero(Response)).ok)
                     => th[t].err = Err("payload", 0)
               /\ th[t].err.kind \notin {"transport", "status"}
               /\ th[t].err # NoErr => th[t].res.isNil

\* one Send has failed on the wrapper, another on the payload
C8_Witness ==
    \E t, u \in Threads :
        /\ th[t].op = "Send" /\ th[u].op = "Send"
        /\ th[t].pc = "done" /\ th[u].pc = "done"
        /\ th[t].resp.Body = notJsonBody /\ th[t].err.kind = "wrapper"
        /\ th[u].resp.Body = badPayloadBody /\ th[u].err.kind = "payload"

\* C9 as claimed: any Request, built by buildRequest and read back from the
\* body (the string "request" unwrapped and read as a Request), is the Request
\* that was built.
C9_RoundTripAny ==
    (codec.kind = "Request" /\ codec.stage = "back")
    => codec.back.ok /\ codec.back.v = codec.val

\* C9: a Request whose strings are valid UTF-8 (empty strings, and nil and empty
\* lists, included), built by buildRequest and read back from the body, is the
\* Request that was built.
C9_RoundTripUtf8 ==
    (codec.kind = "Request" /\ codec.stage = "back"
        /\ WellFormed(codec.val, Request))
    => codec.back.ok /\ codec.back.v = codec.val

\* a request with a character that Marshal escapes, and an item with an empty
\* string and an empty list, has come back as it was
C9_Witness ==
    /\ codec.kind = "Request"
    /\ codec.stage = "back"
    /\ WellFormed(codec.val, Request)
    /\ codec.back.v = codec.val
    /\ codec.val.STAN = <<LT>>
    /\ Len(codec.val.ItemList.elems) = 1
    /\ codec.val.ItemList.elems[1].TaxExemptionCodeList = Slice(<<>>)
    /\ codec.val.ItemList.elems[1].Units = <<>>

\* C10: a Response whose strings are valid UTF-8 and whose numbers are finite,
\* written as JSON, put as the string "d" into an object and parsed by
\* parseResponse, comes back equal, its ItemMessages, its GroupList and each
\* TaxList in their order and length; and the body of Test_parseResponse gives
\* TransId = 616039832 and four elements in GroupList[0].TaxList.
C10_ResponseRoundTrip ==
    /\ (codec.kind = "Response" /\ WellFormed(codec.val, Response))
          => /\ codec.stage # "failed"
             /\ codec.stage = "parsed"
                   => /\ codec.out.err = NoErr
                      /\ ~codec.out.res.isNil
                      /\ codec.out.res.v = codec.val
    /\ (codec.kind = "Body" /\ codec.stage = "parsed" /\ codec.body = getTestResponse)
          => /\ codec.out.err = NoErr
             /\ codec.out.res.v.TransId = 616039832
             /\ Len(codec.out.res.v.GroupList.elems[1].TaxList.elems) = 4

\* a response with two groups, the first with four taxes, has come back as it was
C10_Witness ==
    /\ codec.kind = "Response"
    /\ codec.stage = "parsed"
    /\ codec.out.res.v = codec.val
    /\ Len(codec.val.GroupList.elems) = 2
    /\ codec.val.GroupList.elems[1].TaxList = Slice(<<tax1, tax2, tax2, tax1>>)
    /\ codec.out.res.v.GroupList.elems[1].TaxList.elems[1].TaxRate = Float(744, 4)

(***************************************************************************)
(* Further properties of Send, Cancel and getClient.                       *)
(***************************************************************************)
\* C11: with status 200 and the body read, a call fails exactly when its body
\* does not decode, whatever ResponseCode or Successful say: the bodies that
\* differ only in ResponseCode (9999, 9001) both give Send the nil error and a
\* Response with that code, and the bodies that differ only in Successful
\* (Y, N) both give Cancel the nil error and a CancelResponse with that value.
C11_BusinessCodesAreNotErrors ==
    \A t \in Threads :
        (th[t].pc = "done" /\ th[t].resp.StatusCode = 200 /\ th[t].resp.readOk)
        => /\ (th[t].op = "Send" /\ th[t].resp.Body \in {okBody, rejectedBody})
                => /\ th[t].err = NoErr
                   /\ ~th[t].res.isNil
                   /\ th[t].res.v =
                        [Zero(Response) EXCEPT
                            !.ResponseCode = IF th[t].resp.Body = okBody
                                             THEN <<"9", "9", "9", "9">>
                                             ELSE <<"9", "0", "0", "1">>,
                            !.TransId = 616]
           /\ (th[t].op = "Cancel"
                  /\ th[t].resp.Body \in {okCancelBody, failedCancelBody})
                => /\ th[t].err = NoErr
                   /\ ~th[t].res.isNil
                   /\ th[t].res.v =
                        [Zero(CancelResponse) EXCEPT
                            !.Successful = IF th[t].resp.Body = okCancelBody
                                           THEN <<"Y">> ELSE <<"N">>,
                            !.TransId = 616]
           /\ th[t].op = "Cancel"
                => (th[t].err = NoErr
                      <=> Unmarshal(th[t].resp.Body, CancelResponse,
                                    Zero(CancelResponse)).ok)
           /\ th[t].err.kind \in {"nil", "wrapper", "payload"}

\* two Sends have returned the codes 9999 and 9001 without an error
C11_Witness ==
    \E t, u \in Threads :
        /\ th[t].op = "Send" /\ th[u].op = "Send"
        /\ th[t].pc = "done" /\ th[u].pc = "done"
        /\ th[t].resp = HttpResponse(200, okBody, TRUE)
        /\ th[u].resp = HttpResponse(200, rejectedBody, TRUE)
        /\ th[t].err = NoErr /\ th[u].err = NoErr
        /\ th[t].res.v.ResponseCode = <<"9", "9", "9", "9">>
        /\ th[u].res.v.ResponseCode = <<"9", "0", "0", "1">>
        /\ [th[t].res.v EXCEPT !.ResponseCode = <<>>]
             = [th[u].res.v EXCEPT !.ResponseCode = <<>>]

\* C12: whatever the calls of Send and Cancel on a client and however they
\* interleave, the construction at lines 109-112 runs at most once for the
\* client, and when it has run the client's handle is not nil.
C12_AtMostOneDefault ==
    \A c \in Clients :
        /\ constructed[c] <= 1
        /\ constructed[c] = 1 => httpClient[c] # Nil
        /\ httpClient[c] # Nil => constructed[c] = 1 /\ httpClient[c].n = 1

\* two calls found the client without a handle; one has made it and returned,
\* the other has the lock, has found the handle there and has made none
C12_Witness ==
    \E t, u \in Threads :
        /\ t # u /\ th[t].c = th[u].c
        /\ th[u].pc = "do" /\ th[u].cli = Default(th[u].c, 1)
        /\ th[t].pc = "unlock" /\ mu[th[t].c] = t
        /\ th[t].seen = Nil /\ th[t].cached = Nil
        /\ httpClientOverride = Nil /\ nsets = 0
        /\ constructed[th[t].c] = 1

\* C13: a client's handle, once it is not nil, stays the default that was made
\* first, and every getClient on the client that found no override returns
\* that one handle.
C13_HandleImmutable ==
    /\ \A c \in Clients :
          httpClient[c].kind = "default" => httpClient[c] = Default(c, 1)
    /\ \A t \in Threads :
          (th[t].pc \in PastGetClient /\ th[t].seen = Nil)
          => th[t].cli = Default(th[t].c, 1)

\* the steps of getClient between c.mu.Lock() and the deferred c.mu.Unlock()
InCriticalSection == {"locked", "store", "unlock"}

\* C14: a client's mutex is held only by a call that is between Lock and Unlock
\* in getClient on that client: a call that builds its request, is about to
\* call Do, is in Do, tests the status, decodes or has returned holds no mutex,
\* so while a call is in Do the mutex of its client is free or with a call in
\* getClient, which gives it up without waiting for Do.
C14_MutexOnlyInGetClient ==
    /\ \A c \in Clients :
          mu[c] # 0 => /\ th[mu[c]].pc \in InCriticalSection
                       /\ th[mu[c]].c = c
    /\ \A t \in Threads :
          th[t].pc \notin InCriticalSection => \A c \in Clients : mu[c] # t
    /\ \A t \in Threads :
          th[t].pc = "inDo" =>
             \A u \in Threads :
                (th[u].pc = "lock" /\ th[u].c = th[t].c /\ mu[th[u].c] # 0)
                => ENABLED (getClient_construct(mu[th[u].c])
                              \/ getClient_store(mu[th[u].c])
                              \/ getClient_unlock(mu[th[u].c]))

\* while one call is in Do with the client's default, another call on the
\* client has taken the mutex and is about to return from getClient
C14_Witness ==
    \E t, u \in Threads :
        /\ t # u /\ th[t].c = th[u].c
        /\ th[t].pc = "inDo" /\ th[t].cli = Default(th[t].c, 1)
        /\ th[u].pc = "unlock" /\ mu[th[u].c] = u

\* the steps of a call of Send or Cancel, each with the steps that may follow
\* it: getClient (lines 95-116), build, Do, the status, the decoding, the return
StepOrder ==
    {<<"idle", "getClient">>,
     <<"getClient", "returnOverride">>, <<"getClient", "cached">>,
     <<"returnOverride", "build">>,
     <<"cached", "build">>, <<"cached", "lock">>,
     <<"lock", "locked">>,
     <<"locked", "store">>, <<"locked", "unlock">>,
     <<"store", "unlock">>,
     <<"unlock", "build">>,
     <<"build", "do">>, <<"build", "done">>,
     <<"do", "inDo">>, <<"do", "panic">>,
     <<"inDo", "status">>, <<"inDo", "done">>,
     <<"status", "parse">>, <<"status", "done">>,
     <<"parse", "done">>,
     <<"done", "idle">>}

\* C15: a call of Send or Cancel goes through its steps in the one order
\* getClient, build, Do, status, decoding, return, and leaves it only towards
\* the return: a call whose request could not be built has not called Do, a
\* call is at the status only with the response of its one Do, it decodes only
\* a response with status 200, and a call that has failed only returns.
C15_StepOrder ==
    [][\A t \in Threads :
          /\ th'[t].pc # th[t].pc => <<th[t].pc, th'[t].pc>> \in StepOrder
          /\ th'[t].err.kind \in {"encoding", "url"}
                => /\ th'[t].pc = "done"
                   /\ th'[t].dos = 0
          /\ th'[t].pc \in {"status", "parse"}
                => /\ th'[t].dos = 1
                   /\ th'[t].resp # NoResponse
                   /\ th'[t].err = NoErr
          /\ (th'[t].pc = "parse" \/ th'[t].parses > 0)
                => th'[t].resp.StatusCode = 200
          /\ th[t].err # NoErr => th'[t] \in {th[t], Idle}
      ]_vars

\* one call has gone through every step, and another has failed to build its
\* request and has not called Do
C15_Witness ==
    \E t, u \in Threads :
        /\ th[t].pc = "done" /\ th[t].dos = 1 /\ th[t].parses = 1
        /\ th[t].err = NoErr
        /\ th[u].pc = "done" /\ th[u].err.kind = "url" /\ th[u].dos = 0
        /\ th[u].resp = NoResponse

\* C16: a call that returns the status error for a response with another
\* status than 200 has read the body of the response to its end, and has
\* parsed nothing.
C16_BodyConsumedOnNon200 ==
    \A t \in Threads :
        (th[t].pc = "done" /\ th[t].resp # NoResponse
            /\ th[t].resp.StatusCode # 200)
        => /\ th[t].err = Err("status", th[t].resp.StatusCode)
           /\ th[t].bodyRead
           /\ th[t].parses = 0

\* C17: no step of Send, Cancel or getClient writes Url or CancelUrl, the
\* override changes only in SetHttpClient, and a client's handle changes only
\* from nil to the default made for it (the store of line 112, in its two
\* halves); and what a call returns for a response is what parseResponse or
\* parseCancelResponse gives for that response, whatever the calls before it got.
C17_Frame ==
    [][/\ Url' = Url
       /\ CancelUrl' = CancelUrl
       /\ nsets' = nsets => httpClientOverride' = httpClientOverride
       /\ \A c \in Clients :
             httpClient'[c] # httpClient[c]
             => \/ httpClient[c] = Nil /\ httpClient'[c] = Torn(c, 1)
                \/ httpClient[c] = Torn(c, 1) /\ httpClient'[c] = Default(c, 1)
       /\ \A t \in Threads :
             (th[t].pc = "parse" /\ th'[t].pc = "done")
             => /\ th'[t].resp = th[t].resp
                /\ th[t].op = "Send"
                      => th'[t].err = parseResponse(th[t].resp).err
                         /\ (th'[t].err = NoErr
                               => th'[t].res = parseResponse(th[t].resp).res)
                /\ th[t].op = "Cancel"
                      => th'[t].err = parseCancelResponse(th[t].resp).err
                         /\ (th'[t].err = NoErr
                               => th'[t].res = parseCancelResponse(th[t].resp).res)
      ]_vars

\* the second call on a client has returned a result; the client has its
\* default and its Url as at the start
C17_Witness ==
    \E t \in Threads :
        /\ ncalls = 2
        /\ \A u \in Threads \ {t} : th[u].pc = "idle"
        /\ th[t].pc = "done" /\ th[t].c = 1 /\ th[t].op = "Send"
        /\ th[t].err = NoErr /\ th[t].res.v.TransId = 616
        /\ th[t].cli = Default(1, 1) /\ httpClient[1] = Default(1, 1)
        /\ Url[1] = GoodUrl /\ CancelUrl[1] = GoodCancelUrl
        /\ httpClientOverride = Nil /\ nsets = 0

InGetClient ==
    {"getClient", "returnOverride", "cached", "lock", "locked", "store", "unlock"}

\* a goroutine that can take a step of getClient takes it in the end, and one
\* that waits in c.mu.Lock() gets the mutex if it is free again and again
getClient_fair(t) ==
    /\ WF_vars(getClient_override(t))
    /\ WF_vars(getClient_returnOverride(t))
    /\ WF_vars(getClient_cached(t))
    /\ SF_vars(getClient_lock(t))
    /\ WF_vars(getClient_construct(t))
    /\ WF_vars(getClient_store(t))
    /\ WF_vars(getClient_unlock(t))

SpecFair == Spec /\ \A t \in Threads : getClient_fair(t)

C20_MissingPayloadIsAnError ==
    (codec.kind = "Body" /\ codec.stage = "parsed")
    => /\ Unmarshal(codec.body, ResponseWrapper, Zero(ResponseWrapper))
             = [ok |-> TRUE, v |-> Zero(ResponseWrapper)]
          => /\ codec.out.err = Err("payload", 0)
             /\ codec.out.res.isNil
       /\ codec.body \in {emptyObjectBody, emptyPayloadBody, otherKeyBody}
          => /\ Parse(codec.body).ok
             /\ Parse(codec.body).tree.k = "object"
             /\ codec.out.err = Err("payload", 0)
             /\ codec.out.res.isNil
       /\ codec.out.err = NoErr => ~codec.out.res.isNil

\* the body {} has been parsed, and the payload's error has come of it
C20_Witness ==
    /\ codec.kind = "Body"
    /\ codec.stage = "parsed"
    /\ codec.body = emptyObjectBody
    /\ codec.out = [res |-> NilResult, err |-> Err("payload", 0)]

=============================================================================
